---- MODULE Spec2Model ----
(***************************************************************************)
(* Bouncing-logo pages of sportmagia.github.io.                            *)
(*                                                                         *)
(* Part I   the canvas page (src/index.js, second script, lines 241-967):  *)
(*          CanvasImage, animateLogo, resetVelocityAfterDrag, resizeCanvas *)
(*          and the mouse / wheel / resize handlers.                       *)
(* Part II  the timer-driven LogoAnimator (src/unnamed/part_000):          *)
(*          calculateNextPosition.                                         *)
(* Part III the segment-based page (src/index-css.js):                     *)
(*          calculateNextPosition.                                         *)
(*                                                                         *)
(* Numbers.  JavaScript numbers are modelled by integers in fixed units:   *)
(*   positions and lengths  milli-pixels (Px = 1000 per CSS pixel)         *)
(*   timestamps             milliseconds                                   *)
(*   canvas-page velocity   pixels per second, so that                     *)
(*                          x + velocityX * ((t - t0) / 1000)  [px]        *)
(*                          is exactly  x + velocityX * (t - t0)  [mpx]    *)
(*   scale                  thousandths (ScaleOne = 1000 is scale 1.0)     *)
(***************************************************************************)
EXTENDS Integers, FiniteSets, Sequences, TLC

VARIABLES
  \* ---- Part I: canvas page --------------------------------------------
  now,                 \* performance.now() / the last frame's timestamp (ms)
  canvas_width,        \* canvas.width  (device pixels)
  canvas_height,       \* canvas.height (device pixels)
  devicePixelRatio,    \* window.devicePixelRatio
  logo_x, logo_y,      \* CanvasImage.x, .y (mpx)
  logo_width,          \* CanvasImage.width  (px)
  logo_height,         \* CanvasImage.height (px)
  logo_naturalWidth,   \* CanvasImage.naturalWidth  (px, 0 until loaded)
  logo_naturalHeight,  \* CanvasImage.naturalHeight (px, 0 until loaded)
  logo_scale,          \* CanvasImage.scale (thousandths)
  logo_isDragging,
  logo_dragOffsetX, logo_dragOffsetY,
  logo_isGlowing,
  logo_glowStartTime,
  logo_glowDuration,
  logo_glowIntensity,  \* mpx
  velocityX, velocityY,\* px per second
  lastTimestamp,       \* 0 stands for null (both are falsy in `!lastTimestamp`)
  animationFrameId,    \* TRUE when an animateLogo frame callback is pending
  frameCount, lastFpsUpdateTime, currentFps,
  \* ---- observation of the last handler (history, not program state) ----
  op,                  \* name of the handler that ran last
  pre,                 \* motion state and bounds the last step started from
  ev,                  \* what the last step reported
  dragDelta,           \* displacement of the logo by drag() in the current/last drag
  rel,                 \* the last drag release: the position delta of the drag
  frames,              \* number of frames / steps run (bounded by MaxFrames)
  events,              \* number of input events handled (bounded by MaxEvents)
  \* ---- Part II: timer-driven LogoAnimator (src/unnamed/part_000) -------
  la_velocityX, la_velocityY,   \* this.velocityX, .velocityY (mpx per second)
  la_currentX, la_currentY,     \* this.currentX, .currentY (mpx)
  la_logoDimensions,            \* this.logoDimensions (Null or a record, mpx)
  la_viewportDimensions,        \* this.viewportDimensions (Null or a record, mpx)
  la_animationInProgress,
  la_logoLoadTimeout,           \* TRUE when the timer held by the field is armed
  la_animationSegmentTimeout,
  la_nextAnimationTimeout,
  la_glowTimeout,
  la_segmentTarget,             \* nextX, nextY captured by the armed segment timer
  la_restartFrame,              \* TRUE when the requestAnimationFrame callback is pending
  la_innerWidth, la_innerHeight,\* window.innerWidth, .innerHeight (px)
  la_logoRect,                  \* logo.getBoundingClientRect(): width, height (mpx)
  la_left, la_top,              \* computed style left / top of the logo (mpx)
  la_cssVars,                   \* --start-x, --start-y, --target-x, --target-y (mpx)
  la_glow,                      \* logo.classList.contains('glow')
  la_pre,                       \* history: what the last calculateNextPosition read
  la_ev,                        \* history: what it reported
  la_orphanedNext,              \* armed nextAnimationTimeout timers whose handle was overwritten
  la_debounce,                  \* the closure of debouncedResize
  la_positioned,                \* FALSE while style.left / top are '50vw' / '50vh'
  la_stale,                     \* history: "stale" from the resize handler to the next recomputation of the bounds, "recomputed" after it
  la_resized,                   \* history: the window was resized since the resize handler ran
  la_op,                        \* history: the last event or callback
  la_loaded,                   \* the load event of the logo image has come
  la_events,                    \* history: number of input events (bounded by MaxInputs)
  \* ---- Part III: segment-based page (src/index-css.js) -----------------
  seg_velocityX, seg_velocityY, \* velocityX, velocityY (px per second)
  seg_currentX, seg_currentY,   \* currentX, currentY (mpx)
  seg_animationInProgress,
  seg_logoLoadTimeout,          \* TRUE when the timer held by the variable is armed
  seg_animationSegmentTimeout,
  seg_nextAnimationTimeout,
  seg_glowTimeout,
  seg_resizeTimeout,
  seg_segmentTarget,            \* nextX, nextY captured by the armed segment timer
  seg_restartFrame,             \* TRUE when the requestAnimationFrame callback is pending
  seg_innerWidth, seg_innerHeight, \* window.innerWidth, .innerHeight (px)
  seg_logoRect,                 \* logo.getBoundingClientRect(): width, height (mpx)
  seg_left, seg_top,            \* computed style left / top of the logo (mpx)
  seg_cssVars,                  \* --start-x, --start-y, --target-x, --target-y (mpx)
  seg_glow,                     \* logo.classList.contains('glow')
  seg_pre,                      \* history: what the last calculateNextPosition read
  seg_ev,                       \* history: what it decided
  seg_orphanedNext,             \* armed nextAnimationTimeout timers whose handle was overwritten
  seg_loadViewport,             \* viewportWidth, viewportHeight captured by the armed logoLoadTimeout timer
  seg_positioned,               \* FALSE while style.left / top are '50vw' / '50vh'
  seg_op,                       \* history: the last event or callback
  seg_loaded,                   \* the load event of the logo image has come
  seg_events,                   \* history: number of input events (bounded by MaxInputs)
  \* ---- Part IV: debounce (src/debounce.js), one debounced function ------
  db,                  \* the closure: timeout, lastArgs, lastThis, isInvoked, options
  db_wait,             \* wait (ms)
  db_now,              \* current time (ms)
  db_deadline,         \* time at which the armed timer fires (0: none armed)
  db_op,               \* history: what happened last
  db_calls,            \* history: number of calls made (bounded by MaxCalls)
  db_lastCallTime,     \* history: time of the most recent call
  db_lastCallArgs,     \* history: arguments of the most recent call
  db_burstInvoked,     \* history: invocations of func in the current / last burst
  db_invokedArgs,      \* history: arguments of the last invocation of func
  db_invokedAt,        \* history: time of the last invocation of func
  db_burstCalls,       \* history: calls since the timer was last found unarmed
  db_lastCallThis,     \* history: receiver of the most recent call
  db_cancelState,      \* history: "none", "cancelled", "called" or "later"
  \* ---- Part V: FPSMeter (src/fps-meter.js) ------------------------------
  fps_ui,              \* this.ui
  fps_isRunning,       \* this.isRunning
  fps_fps,             \* this.fps
  fps_element,         \* this.element: 0 when undefined, else the element's number
  fps_attached,        \* the elements created by the meter that are in document.body
  fps_pending,         \* number of pending animation-frame callbacks of measure()
  fps_op,              \* history: the last call or callback
  fps_calls,           \* history: number of calls made (bounded by MaxMeterCalls)
  \* ---- Part VII: frame-driven LogoAnimator (src/logo-animator.js) -------
  fa_angle,            \* this.angle (degrees)
  fa_speed,            \* this.speed (px per second)
  fa_logoDimensions,   \* this.logoDimensions (mpx), Null until the first frame
  fa_currentX,         \* this.currentX (normalised, mpx)
  fa_currentY,         \* this.currentY (normalised, mpx)
  fa_isAnimating,      \* this.isAnimating
  fa_animationFrameId, \* TRUE when the frame requested for mainLoop is pending
  fa_innerWidth,       \* window.innerWidth (px)
  fa_innerHeight,      \* window.innerHeight (px)
  fa_logoRect,         \* logo.getBoundingClientRect(): width, height (mpx)
  fa_cssVars,          \* --start-x, --start-y, --target-x, --target-y (mpx)
  fa_progress,         \* how far the CSS animation was at the last frame
  fa_glow,             \* logo.classList.contains('glow')
  fa_glowTimers,       \* number of armed timers of toggleGlow
  fa_debounce,         \* the closure of debouncedResize
  fa_loaded,           \* the load event of the logo image has come
  fa_listening,        \* the resize and load listeners of initialize() are attached
  fa_handled,          \* history: the resize handler has run
  fa_pre,              \* history: what the last mainLoop frame read and used
  fa_op,               \* history: the last event or callback
  fa_frames,           \* history: number of frames run (bounded by MaxLoopFrames)
  fa_events,           \* history: number of input events (bounded by MaxInputs)
  \* ---- Part VIII: LogoAnimator2 (src/fps-meter.js, lines 209-534) -------
  l2_angle,            \* this.angle (degrees)
  l2_velocityX,        \* this.velocityX: Undefined, or "NaN"
  l2_logoDimensions,   \* this.logoDimensions (mpx), Null until the first frame
  l2_currentX,         \* this.currentX (normalised, mpx)
  l2_currentY,         \* this.currentY (normalised, mpx)
  l2_isAnimating,      \* this.isAnimating
  l2_animationFrameId, \* TRUE when the frame requested for mainLoop is pending
  l2_innerWidth,       \* window.innerWidth (px)
  l2_innerHeight,      \* window.innerHeight (px)
  l2_logoRect,         \* logo.getBoundingClientRect(): width, height (mpx)
  l2_cssVars,          \* --start-x, --start-y, --target-x, --target-y (mpx)
  l2_progress,         \* how far the CSS animation was at the last frame
  l2_glow,             \* logo.classList.contains('glow')
  l2_glowTimers,       \* number of armed timers of toggleGlow
  l2_debounce,         \* the closure of debouncedResize
  l2_loaded,           \* the load event of the logo image has come
  l2_pre,              \* history: what the last mainLoop frame read
  l2_op,               \* history: the last event or callback
  l2_frames,           \* history: number of frames run (bounded by MaxLoopFrames)
  l2_events            \* history: number of input events (bounded by MaxInputs)

canvasVars ==
  <<now, canvas_width, canvas_height, devicePixelRatio, logo_x, logo_y,
    logo_width, logo_height, logo_naturalWidth, logo_naturalHeight,
    logo_scale, logo_isDragging, logo_dragOffsetX, logo_dragOffsetY,
    logo_isGlowing, logo_glowStartTime, logo_glowDuration,
    logo_glowIntensity, velocityX, velocityY, lastTimestamp,
    animationFrameId, frameCount, lastFpsUpdateTime, currentFps>>

histVars == <<op, pre, ev, dragDelta, rel, frames, events>>

segVars ==
  <<seg_velocityX, seg_velocityY, seg_currentX, seg_currentY,
    seg_animationInProgress, seg_logoLoadTimeout, seg_animationSegmentTimeout,
    seg_nextAnimationTimeout, seg_glowTimeout, seg_resizeTimeout,
    seg_segmentTarget, seg_restartFrame, seg_innerWidth, seg_innerHeight,
    seg_logoRect, seg_left, seg_top, seg_cssVars, seg_glow, seg_pre, seg_ev,
    seg_orphanedNext, seg_loadViewport, seg_positioned, seg_op, seg_events,
    seg_loaded>>

dbVars ==
  <<db, db_wait, db_now, db_deadline, db_op, db_calls, db_lastCallTime,
    db_lastCallArgs, db_burstInvoked, db_invokedArgs, db_invokedAt,
    db_burstCalls, db_lastCallThis, db_cancelState>>

fpsVars ==
  <<fps_ui, fps_isRunning, fps_fps, fps_element, fps_attached, fps_pending,
    fps_op, fps_calls>>

faVars ==
  <<fa_angle, fa_speed, fa_logoDimensions, fa_currentX, fa_currentY,
    fa_isAnimating, fa_animationFrameId, fa_innerWidth, fa_innerHeight,
    fa_logoRect, fa_cssVars, fa_progress, fa_glow, fa_glowTimers, fa_debounce,
    fa_loaded, fa_listening, fa_handled, fa_pre, fa_op, fa_frames, fa_events>>

l2Vars ==
  <<l2_angle, l2_velocityX, l2_logoDimensions, l2_currentX, l2_currentY,
    l2_isAnimating, l2_animationFrameId, l2_innerWidth, l2_innerHeight,
    l2_logoRect, l2_cssVars, l2_progress, l2_glow, l2_glowTimers, l2_debounce,
    l2_loaded, l2_pre, l2_op, l2_frames, l2_events>>

laVars ==
  <<la_velocityX, la_velocityY, la_currentX, la_currentY, la_logoDimensions,
    la_viewportDimensions, la_animationInProgress, la_logoLoadTimeout,
    la_animationSegmentTimeout, la_nextAnimationTimeout, la_glowTimeout,
    la_segmentTarget, la_restartFrame, la_innerWidth, la_innerHeight,
    la_logoRect, la_left, la_top, la_cssVars, la_glow, la_pre, la_ev,
    la_orphanedNext, la_debounce, la_positioned, la_stale, la_resized, la_op,
    la_events, la_loaded>>

vars == <<canvasVars, histVars, laVars, segVars, dbVars, fpsVars, faVars, l2Vars>>

\* What the handlers of the canvas page leave alone: the other pages
notCanvas == <<laVars, segVars, dbVars, fpsVars, faVars, l2Vars>>
\* What the handlers of the LogoAnimator page leave alone
notLogoAnimator == <<canvasVars, op, pre, ev, dragDelta, rel, events, segVars, dbVars,
                     fpsVars, faVars, l2Vars>>
notSegment == <<canvasVars, op, pre, ev, dragDelta, rel, events, laVars, dbVars,
                fpsVars, faVars, l2Vars>>
notDebounce == <<canvasVars, histVars, laVars, segVars, fpsVars, faVars, l2Vars>>
notFps == <<canvasVars, histVars, laVars, segVars, dbVars, faVars, l2Vars>>
notFrameAnimator == <<canvasVars, histVars, laVars, segVars, dbVars, fpsVars, l2Vars>>
notLogoAnimator2 == <<canvasVars, histVars, laVars, segVars, dbVars, fpsVars, faVars>>

----------------------------------------------------------------------------
\* Bounds of the model

MaxFrames == 2   \* frames run per behaviour
MaxEvents == 4   \* effective input events per behaviour
StartTime == 100 \* timestamp (ms) at which the page script runs
MaxCalls == 3    \* calls of a debounced function per behaviour
MaxTime == 5     \* time (ms) up to which a debounced function is called
MaxMeterCalls == 4 \* calls of the FPS meter's methods per behaviour
MaxLoopFrames == 3 \* frames of the frame-driven animator per behaviour
MaxInputs == 2   \* resize and key events of an animated page per behaviour

\* Units and program constants

Px == 1000                \* mpx per px: the /1000 of deltaTime
ScaleOne == 1000          \* scale 1.0, in thousandths
speed == 200              \* pixels per second
velocityX0 == 153         \* Math.cos(40 deg) * speed = 153.2..., in px/s
velocityY0 == 129         \* Math.sin(40 deg) * speed = 128.6..., in px/s
fpsUpdateInterval == 500
minWidthPx == 200         \* options.minWidth
cornerGlowDuration == 5000
maxGlowIntensity == 30    \* px

Abs(n) == IF n < 0 THEN -n ELSE n
Max(a, b) == IF a >= b THEN a ELSE b
Min(a, b) == IF a <= b THEN a ELSE b
\* Math.round(a / b) for a >= 0, b > 0
RoundDiv(a, b) == (2 * a + b) \div (2 * b)

----------------------------------------------------------------------------
(***************************************************************************)
(* Part I.  The canvas page, src/index.js lines 241-967                    *)
(***************************************************************************)

\* Environment of the canvas page
WindowSizes == {<<1000, 600>>, <<200, 100>>, <<150, 80>>}  \* innerWidth x innerHeight (px)
DevicePixelRatios == {2}
ImageNaturalSize == [w |-> 200, h |-> 100]   \* LOGO-SPORTMAGIA.svg (px)
FrameGaps == {0, 16, 1000}                   \* ms between two frame timestamps

\* canvas.width / window.devicePixelRatio and canvas.height / ... (mpx)
canvasWidth == (canvas_width * Px) \div devicePixelRatio
canvasHeight == (canvas_height * Px) \div devicePixelRatio

\* (logo.width * logo.scale) / 2 and (logo.height * logo.scale) / 2 (mpx)
logoHalfWidth == (logo_width * logo_scale) \div 2
logoHalfHeight == (logo_height * logo_scale) \div 2

leftBound == logoHalfWidth
rightBound == canvasWidth - logoHalfWidth
topBound == logoHalfHeight
bottomBound == canvasHeight - logoHalfHeight

\* Variants of BounceAxis, each with one plausible slip, used to show which
\* properties depend on which part of it:
\*   the clamp to the high bound is missing
BounceAxisUnclamped(pos, vel, deltaTime, lowBound, highBound) ==
  LET newPos == pos + vel * deltaTime IN
  IF newPos <= lowBound
    THEN [pos |-> lowBound, vel |-> Abs(vel), hit |-> vel < 0]
    ELSE IF newPos >= highBound
      THEN [pos |-> newPos, vel |-> -Abs(vel), hit |-> vel > 0]
      ELSE [pos |-> newPos, vel |-> vel, hit |-> FALSE]
\*   the velocity is not reversed at the high bound
BounceAxisKeepsVelocity(pos, vel, deltaTime, lowBound, highBound) ==
  LET newPos == pos + vel * deltaTime IN
  IF newPos <= lowBound
    THEN [pos |-> lowBound, vel |-> Abs(vel), hit |-> vel < 0]
    ELSE IF newPos >= highBound
      THEN [pos |-> highBound, vel |-> vel, hit |-> vel > 0]
      ELSE [pos |-> newPos, vel |-> vel, hit |-> FALSE]
\*   a bound that is reached counts as a hit whatever the direction
BounceAxisAlwaysHit(pos, vel, deltaTime, lowBound, highBound) ==
  LET newPos == pos + vel * deltaTime IN
  IF newPos <= lowBound
    THEN [pos |-> lowBound, vel |-> Abs(vel), hit |-> TRUE]
    ELSE IF newPos >= highBound
      THEN [pos |-> highBound, vel |-> -Abs(vel), hit |-> TRUE]
      ELSE [pos |-> newPos, vel |-> vel, hit |-> FALSE]
\*   the bounce loses speed
BounceAxisDamped(pos, vel, deltaTime, lowBound, highBound) ==
  LET newPos == pos + vel * deltaTime IN
  IF newPos <= lowBound
    THEN [pos |-> lowBound, vel |-> Abs(vel) \div 2, hit |-> vel < 0]
    ELSE IF newPos >= highBound
      THEN [pos |-> highBound, vel |-> -(Abs(vel) \div 2), hit |-> vel > 0]
      ELSE [pos |-> newPos, vel |-> vel, hit |-> FALSE]
\*   the hit flag of the high bound tests the direction of the low bound
BounceAxisWrongDirection(pos, vel, deltaTime, lowBound, highBound) ==
  LET newPos == pos + vel * deltaTime IN
  IF newPos <= lowBound
    THEN [pos |-> lowBound, vel |-> Abs(vel), hit |-> vel < 0]
    ELSE IF newPos >= highBound
      THEN [pos |-> highBound, vel |-> -Abs(vel), hit |-> vel < 0]
      ELSE [pos |-> newPos, vel |-> vel, hit |-> FALSE]

\* One axis of the collision code of animateLogo: the candidate position,
\* the test against the low bound first and the high bound otherwise, the
\* clamp, the bounce (Math.abs / -Math.abs) and the hit flag, which counts
\* only when the logo was moving toward the edge.
BounceAxis(pos, vel, deltaTime, lowBound, highBound) ==
  LET newPos == pos + vel * deltaTime IN
  IF newPos <= lowBound
    THEN [pos |-> lowBound, vel |-> Abs(vel), hit |-> vel < 0]
    ELSE IF newPos >= highBound
      THEN [pos |-> highBound, vel |-> -Abs(vel), hit |-> vel > 0]
      ELSE [pos |-> newPos, vel |-> vel, hit |-> FALSE]

\* Variant of Stepping: the frame steps the logo also while it is dragged
SteppingWhileDragged == TRUE

\* if (!logo.isDragging) { ... step ... }
Stepping == ~logo_isDragging

\* Variant of CornerGlow: one edge is enough
CornerGlowOnAnyEdge(hitHorizontal, hitVertical, isGlowing) ==
  (hitHorizontal \/ hitVertical) /\ ~isGlowing

\* if (hitHorizontal && hitVertical && !logo.isGlowing)
CornerGlow(hitHorizontal, hitVertical, isGlowing) ==
  hitHorizontal /\ hitVertical /\ ~isGlowing

\* The glow fields of CanvasImage as one record
Glow == [isGlowing |-> logo_isGlowing, start |-> logo_glowStartTime,
         duration |-> logo_glowDuration, intensity |-> logo_glowIntensity]

\* CanvasImage.startGlowEffect(duration) called at time t
startGlowEffect(t, duration) ==
  [isGlowing |-> TRUE, start |-> t, duration |-> duration,
   intensity |-> maxGlowIntensity * Px]

\* CanvasImage.updateGlowEffect(currentTime)
updateGlowEffect(g, currentTime) ==
  LET elapsedTime == currentTime - g.start IN
  IF ~g.isGlowing THEN g
  ELSE IF elapsedTime >= g.duration
    THEN [g EXCEPT !.isGlowing = FALSE, !.intensity = 0]
  ELSE IF elapsedTime < 500
    THEN [g EXCEPT !.intensity = (elapsedTime * maxGlowIntensity * Px) \div 500]
  ELSE IF elapsedTime > g.duration - 1000
    THEN [g EXCEPT !.intensity =
            ((g.duration - elapsedTime) * maxGlowIntensity * Px) \div 1000]
  ELSE [g EXCEPT !.intensity = maxGlowIntensity * Px]

SetGlow(g) ==
  /\ logo_isGlowing' = g.isGlowing
  /\ logo_glowStartTime' = g.start
  /\ logo_glowDuration' = g.duration
  /\ logo_glowIntensity' = g.intensity

\* CanvasImage.isPointInside(x, y)
isPointInside(mx, my) ==
  LET halfWidth == (logo_naturalWidth * logo_scale) \div 2
      halfHeight == (logo_naturalHeight * logo_scale) \div 2
  IN /\ mx >= logo_x - halfWidth
     /\ mx <= logo_x + halfWidth
     /\ my >= logo_y - halfHeight
     /\ my <= logo_y + halfHeight

\* Mouse positions tried by the input events (mpx, relative to the canvas)
MousePoints ==
  {<<logo_x, logo_y>>, <<logo_x + 10 * Px, logo_y - 10 * Px>>, <<0, 0>>,
   <<canvasWidth, canvasHeight>>}

NoStep == [stepped |-> FALSE, x |-> 0, y |-> 0, vx |-> 0, vy |-> 0, dt |-> 0,
           left |-> 0, right |-> 0, top |-> 0, bottom |-> 0,
           isGlowing |-> FALSE, isDragging |-> FALSE]
NoEvents == [hitHorizontal |-> FALSE, hitVertical |-> FALSE, glowStarted |-> FALSE]
NoRelease == [ended |-> FALSE, dx |-> 0, dy |-> 0]

\* animateLogo(timestamp), one animation frame
animateLogo ==
  /\ animationFrameId
  /\ frames < MaxFrames
  /\ \E gap \in FrameGaps :
       LET timestamp == now + gap
           last == IF lastTimestamp = 0 THEN timestamp ELSE lastTimestamp
           deltaTime == timestamp - last
           fpsDue == timestamp - lastFpsUpdateTime >= fpsUpdateInterval
           sx == BounceAxis(logo_x, velocityX, deltaTime, leftBound, rightBound)
           sy == BounceAxis(logo_y, velocityY, deltaTime, topBound, bottomBound)
           corner == Stepping /\ CornerGlow(sx.hit, sy.hit, logo_isGlowing)
           g == IF corner THEN startGlowEffect(timestamp, cornerGlowDuration)
                          ELSE Glow
       IN /\ now' = timestamp
          /\ lastTimestamp' = timestamp
          /\ IF fpsDue
               THEN /\ currentFps' = RoundDiv((frameCount + 1) * 1000,
                                              timestamp - lastFpsUpdateTime)
                    /\ frameCount' = 0
                    /\ lastFpsUpdateTime' = timestamp
               ELSE /\ frameCount' = frameCount + 1
                    /\ UNCHANGED <<currentFps, lastFpsUpdateTime>>
          /\ IF Stepping
               THEN /\ logo_x' = sx.pos
                    /\ logo_y' = sy.pos
                    /\ velocityX' = sx.vel
                    /\ velocityY' = sy.vel
               ELSE UNCHANGED <<logo_x, logo_y, velocityX, velocityY>>
          /\ SetGlow(updateGlowEffect(g, timestamp))
          /\ pre' = [stepped |-> Stepping, x |-> logo_x, y |-> logo_y,
                     vx |-> velocityX, vy |-> velocityY, dt |-> deltaTime,
                     left |-> leftBound, right |-> rightBound,
                     top |-> topBound, bottom |-> bottomBound,
                     isGlowing |-> logo_isGlowing,
                     isDragging |-> logo_isDragging]
          /\ ev' = [hitHorizontal |-> Stepping /\ sx.hit,
                    hitVertical |-> Stepping /\ sy.hit,
                    glowStarted |-> corner]
  /\ animationFrameId' = TRUE
  /\ frames' = frames + 1
  /\ op' = "animateLogo"
  /\ UNCHANGED notCanvas
  /\ UNCHANGED <<canvas_width, canvas_height, devicePixelRatio, logo_width,
                 logo_height, logo_naturalWidth, logo_naturalHeight, logo_scale,
                 logo_isDragging, logo_dragOffsetX, logo_dragOffsetY,
                 dragDelta, rel, events>>

\* Variants of ResetVelocity: the full speed instead of the component of the
\* initial velocity; the direction away from the centre
ResetVelocityFullSpeed(pos, canvasSize, v0) ==
  LET dir == IF 2 * pos < canvasSize THEN 1 ELSE -1
  IN dir * speed
ResetVelocityAway(pos, canvasSize, v0) ==
  LET dir == IF 2 * pos < canvasSize THEN -1 ELSE 1
  IN dir * Abs(v0)

\* One component of resetVelocityAfterDrag: the direction from the logo
\* position toward the canvas centre, at the magnitude of the initial velocity
\* (pos < canvasSize / 2 is compared as 2 * pos < canvasSize)
ResetVelocity(pos, canvasSize, v0) ==
  LET dir == IF 2 * pos < canvasSize THEN 1 ELSE -1
  IN dir * Abs(v0)

\* image.onload and the callback given to setOnLoadCallback
imageLoad ==
  /\ logo_naturalWidth = 0
  /\ events < MaxEvents
  /\ logo_naturalWidth' = ImageNaturalSize.w
  /\ logo_naturalHeight' = ImageNaturalSize.h
  /\ logo_width' = ImageNaturalSize.w
  /\ logo_height' = ImageNaturalSize.h
  /\ animationFrameId' = TRUE
  /\ op' = "load"
  /\ UNCHANGED notCanvas
  /\ events' = events + 1
  /\ UNCHANGED <<now, canvas_width, canvas_height, devicePixelRatio, logo_x,
                 logo_y, logo_scale, logo_isDragging, logo_dragOffsetX,
                 logo_dragOffsetY, logo_isGlowing, logo_glowStartTime,
                 logo_glowDuration, logo_glowIntensity, velocityX, velocityY,
                 lastTimestamp, frameCount, lastFpsUpdateTime, currentFps,
                 pre, ev, dragDelta, rel, frames>>

\* CanvasImage.updateSize(canvasWidth): the new scale (thousandths) for a
\* display width in px; unchanged while the image has not loaded
updateSize(displayWidth) ==
  LET targetWidth == Max((displayWidth * Px) \div 5, minWidthPx * Px)
  IN IF logo_naturalWidth > 0
       THEN targetWidth \div logo_naturalWidth
       ELSE logo_scale

\* resizeCanvas(), the window resize handler
resizeCanvas ==
  /\ events < MaxEvents
  /\ \E size \in WindowSizes :
       /\ canvas_width' = size[1] * devicePixelRatio
       /\ canvas_height' = size[2] * devicePixelRatio
       /\ logo_scale' = updateSize(size[1])
       /\ logo_width' = logo_naturalWidth
       /\ logo_height' = logo_naturalHeight
       /\ logo_x' = (size[1] * Px) \div 2
       /\ logo_y' = (size[2] * Px) \div 2
  /\ op' = "resize"
  /\ UNCHANGED notCanvas
  /\ events' = events + 1
  /\ UNCHANGED <<now, devicePixelRatio, logo_naturalWidth, logo_naturalHeight,
                 logo_isDragging, logo_dragOffsetX, logo_dragOffsetY,
                 logo_isGlowing, logo_glowStartTime, logo_glowDuration,
                 logo_glowIntensity, velocityX, velocityY, lastTimestamp,
                 animationFrameId, frameCount, lastFpsUpdateTime, currentFps,
                 pre, ev, dragDelta, rel, frames>>

\* mousedown: logo.startDrag(mouseX, mouseY)
mousedown ==
  /\ events < MaxEvents
  /\ \E m \in MousePoints :
       IF isPointInside(m[1], m[2])
         THEN /\ logo_isDragging' = TRUE
              /\ logo_dragOffsetX' = m[1] - logo_x
              /\ logo_dragOffsetY' = m[2] - logo_y
              /\ dragDelta' = <<0, 0>>
         ELSE UNCHANGED <<logo_isDragging, logo_dragOffsetX, logo_dragOffsetY,
                          dragDelta>>
  /\ op' = "mousedown"
  /\ UNCHANGED notCanvas
  /\ events' = events + 1
  /\ UNCHANGED <<now, canvas_width, canvas_height, devicePixelRatio, logo_x,
                 logo_y, logo_width, logo_height, logo_naturalWidth,
                 logo_naturalHeight, logo_scale, logo_isGlowing,
                 logo_glowStartTime, logo_glowDuration, logo_glowIntensity,
                 velocityX, velocityY, lastTimestamp, animationFrameId,
                 frameCount, lastFpsUpdateTime, currentFps,
                 pre, ev, rel, frames>>

\* mousemove: logo.drag(mouseX, mouseY)
mousemove ==
  /\ events < MaxEvents
  /\ \E m \in MousePoints :
       IF logo_isDragging
         THEN /\ logo_x' = m[1] - logo_dragOffsetX
              /\ logo_y' = m[2] - logo_dragOffsetY
              /\ dragDelta' = <<dragDelta[1] + (logo_x' - logo_x),
                                dragDelta[2] + (logo_y' - logo_y)>>
         ELSE UNCHANGED <<logo_x, logo_y, dragDelta>>
  /\ op' = "mousemove"
  /\ UNCHANGED notCanvas
  /\ events' = events + 1
  /\ UNCHANGED <<now, canvas_width, canvas_height, devicePixelRatio,
                 logo_width, logo_height, logo_naturalWidth,
                 logo_naturalHeight, logo_scale, logo_isDragging,
                 logo_dragOffsetX, logo_dragOffsetY, logo_isGlowing,
                 logo_glowStartTime, logo_glowDuration, logo_glowIntensity,
                 velocityX, velocityY, lastTimestamp, animationFrameId,
                 frameCount, lastFpsUpdateTime, currentFps,
                 pre, ev, rel, frames>>

\* mouseup: resetVelocityAfterDrag() when a drag ends, then logo.stopDrag()
mouseup ==
  /\ events < MaxEvents
  /\ IF logo_isDragging
       THEN /\ velocityX' = ResetVelocity(logo_x, canvasWidth, velocityX0)
            /\ velocityY' = ResetVelocity(logo_y, canvasHeight, velocityY0)
            /\ rel' = [ended |-> TRUE,
                       dx |-> dragDelta[1],
                       dy |-> dragDelta[2]]
       ELSE UNCHANGED <<velocityX, velocityY, rel>>
  /\ logo_isDragging' = FALSE
  /\ op' = "mouseup"
  /\ UNCHANGED notCanvas
  /\ events' = events + 1
  /\ UNCHANGED <<now, canvas_width, canvas_height, devicePixelRatio, logo_x,
                 logo_y, logo_width, logo_height, logo_naturalWidth,
                 logo_naturalHeight, logo_scale, logo_dragOffsetX,
                 logo_dragOffsetY, logo_isGlowing, logo_glowStartTime,
                 logo_glowDuration, logo_glowIntensity, lastTimestamp,
                 animationFrameId, frameCount, lastFpsUpdateTime, currentFps,
                 pre, ev, dragDelta, frames>>

\* CanvasImage.adjustScale(delta, mouseX, mouseY): the new scale
adjustScale(delta) ==
  LET s == logo_scale + (IF delta > 0 THEN -(ScaleOne \div 10) ELSE ScaleOne \div 10)
  IN Max(2 * (ScaleOne \div 10), Min(3 * ScaleOne, s))

\* wheel: logo.adjustScale(e.deltaY, mouseX, mouseY)
wheel ==
  /\ events < MaxEvents
  /\ \E m \in MousePoints, deltaY \in {-1, 1} :
       IF isPointInside(m[1], m[2])
         THEN logo_scale' = adjustScale(deltaY)
         ELSE UNCHANGED logo_scale
  /\ op' = "wheel"
  /\ UNCHANGED notCanvas
  /\ events' = events + 1
  /\ UNCHANGED <<now, canvas_width, canvas_height, devicePixelRatio, logo_x,
                 logo_y, logo_width, logo_height, logo_naturalWidth,
                 logo_naturalHeight, logo_isDragging, logo_dragOffsetX,
                 logo_dragOffsetY, logo_isGlowing, logo_glowStartTime,
                 logo_glowDuration, logo_glowIntensity, velocityX, velocityY,
                 lastTimestamp, animationFrameId, frameCount,
                 lastFpsUpdateTime, currentFps,
                 pre, ev, dragDelta, rel, frames>>

\* click on the "Make Logo Glow" button (added when the image has loaded)
glowButtonClick ==
  /\ events < MaxEvents
  /\ logo_naturalWidth > 0
  /\ SetGlow(startGlowEffect(now, cornerGlowDuration))
  /\ op' = "glowButton"
  /\ UNCHANGED notCanvas
  /\ events' = events + 1
  /\ UNCHANGED <<now, canvas_width, canvas_height, devicePixelRatio, logo_x,
                 logo_y, logo_width, logo_height, logo_naturalWidth,
                 logo_naturalHeight, logo_scale, logo_isDragging,
                 logo_dragOffsetX, logo_dragOffsetY, velocityX, velocityY,
                 lastTimestamp, animationFrameId, frameCount,
                 lastFpsUpdateTime, currentFps,
                 pre, ev, dragDelta, rel, frames>>

----------------------------------------------------------------------------
(***************************************************************************)
(* Part II.  The timer-driven LogoAnimator, src/unnamed/part_000           *)
(*                                                                         *)
(* Velocities are in mpx per second and are multiples of 60, so that       *)
(* velocityX / 60 is exact.                                                *)
(***************************************************************************)

\* null, for fields that otherwise hold a record
Null == [null |-> TRUE]

\* updateViewportDimensions(): the record it stores
LA_viewport == [width |-> la_innerWidth * Px, height |-> la_innerHeight * Px]

\* updateLogoDimensionsAndBounds(): the logoDimensions record it stores
LA_logoDimensions(viewportDimensions, logoRect) ==
  [width |-> logoRect.width,
   height |-> logoRect.height,
   leftBound |-> logoRect.width \div 2,
   rightBound |-> viewportDimensions.width - logoRect.width \div 2,
   topBound |-> logoRect.height \div 2,
   bottomBound |-> viewportDimensions.height - logoRect.height \div 2]

\* parseFloat(getComputedStyle(logo).left) || this.currentX
LA_actualPosition(computed, current) == IF computed # 0 THEN computed ELSE current

\* One axis of calculateNextPosition: the candidate, the two hit tests, the
\* velocity reversal, the move onto the bound that was hit and the final clamp
LA_Axis(current, velocity, lowBound, highBound) ==
  LET next == current + velocity \div 60
      hitLow == next <= lowBound
      hitHigh == next >= highBound
      onBound == IF hitLow \/ hitHigh
                   THEN (IF hitLow THEN lowBound ELSE highBound)
                   ELSE next
  IN [pos |-> Max(lowBound, Min(highBound, onBound)),
      vel |-> IF hitLow \/ hitHigh THEN -velocity ELSE velocity,
      hitLow |-> hitLow,
      hitHigh |-> hitHigh]

\* const hitCorner = (hitLeft || hitRight) && (hitTop || hitBottom)
LA_hitCorner(hitLeft, hitRight, hitTop, hitBottom) ==
  (hitLeft \/ hitRight) /\ (hitTop \/ hitBottom)

\* Variant of clearTimeout that cancels nothing
ClearTimeoutDoesNothing(armed) == armed

\* clearTimeout(handle): whether the timer of the handle is armed afterwards
ClearTimeout(armed) == FALSE

\* handle = setTimeout(...) over a handle whose timer is armed or not: the new
\* timer is armed
SetTimeout(armed) == TRUE

\* toggleGlow(duration)
LA_toggleGlow ==
  IF la_glow
    THEN UNCHANGED <<la_glow, la_glowTimeout>>
    ELSE /\ la_glow' = TRUE
         /\ la_glowTimeout' = SetTimeout(ClearTimeout(la_glowTimeout))

\* calculateNextPosition(), called when the fields that the caller has just
\* written hold the given values: the cached dimensions, currentX and
\* currentY, and whether the timer of nextAnimationTimeout is armed
LA_calculateNextPositionFrom(logoDimensions, viewportDimensions, currentX, currentY, nextArmed) ==
  LET stale == logoDimensions = Null \/ viewportDimensions = Null
      viewport == IF viewportDimensions = Null THEN LA_viewport
                                               ELSE viewportDimensions
      dimensions == IF stale THEN LA_logoDimensions(viewport, la_logoRect)
                             ELSE logoDimensions
      curX == LA_actualPosition(la_left, currentX)
      curY == LA_actualPosition(la_top, currentY)
      ax == LA_Axis(curX, la_velocityX, dimensions.leftBound, dimensions.rightBound)
      ay == LA_Axis(curY, la_velocityY, dimensions.topBound, dimensions.bottomBound)
      hitCorner == LA_hitCorner(ax.hitLow, ax.hitHigh, ay.hitLow, ay.hitHigh)
  IN /\ la_viewportDimensions' = viewport
     /\ la_logoDimensions' = dimensions
     /\ la_velocityX' = ax.vel
     /\ la_velocityY' = ay.vel
     /\ IF hitCorner THEN LA_toggleGlow
                     ELSE UNCHANGED <<la_glow, la_glowTimeout>>
     /\ la_cssVars' = [startX |-> curX, startY |-> curY,
                       targetX |-> ax.pos, targetY |-> ay.pos]
     /\ la_currentX' = ax.pos
     /\ la_currentY' = ay.pos
     /\ la_animationInProgress' = TRUE
     /\ la_restartFrame' = TRUE
     /\ la_animationSegmentTimeout' =
          SetTimeout(ClearTimeout(la_animationSegmentTimeout))
     /\ la_nextAnimationTimeout' = ClearTimeout(nextArmed)
     /\ la_segmentTarget' = <<ax.pos, ay.pos>>
     /\ la_pre' = [stepped |-> TRUE, x |-> curX, y |-> curY,
                   vx |-> la_velocityX, vy |-> la_velocityY,
                   left |-> dimensions.leftBound, right |-> dimensions.rightBound,
                   top |-> dimensions.topBound, bottom |-> dimensions.bottomBound]
     /\ la_ev' = [toggleGlow |-> hitCorner]
     /\ UNCHANGED <<la_innerWidth, la_innerHeight, la_logoRect, la_left, la_top>>

\* calculateNextPosition() in the current state
LA_calculateNextPosition ==
  /\ LA_calculateNextPositionFrom(la_logoDimensions, la_viewportDimensions,
                                  la_currentX, la_currentY,
                                  la_nextAnimationTimeout)
  /\ UNCHANGED la_logoLoadTimeout

LA_NoStep == [stepped |-> FALSE, x |-> 0, y |-> 0, vx |-> 0, vy |-> 0,
              left |-> 0, right |-> 0, top |-> 0, bottom |-> 0]
LA_NoEvents == [toggleGlow |-> FALSE]

\* No timer is orphaned, no resize is being debounced, no input has come
LA_NoInputs ==
  /\ la_orphanedNext = 0
  /\ la_debounce = Null
  /\ la_positioned = TRUE
  /\ la_stale = "initial"
  /\ la_resized = FALSE
  /\ la_op = "init"
  /\ la_events = 0
  /\ la_loaded = FALSE

\* What a step of the animation leaves alone
LA_inputs ==
  <<la_orphanedNext, la_debounce, la_positioned, la_stale, la_resized, la_op,
    la_events, la_loaded>>

\* The LogoAnimator page is not open
LA_Idle ==
  /\ la_velocityX = 0
  /\ la_velocityY = 0
  /\ la_currentX = 0
  /\ la_currentY = 0
  /\ la_logoDimensions = Null
  /\ la_viewportDimensions = Null
  /\ la_animationInProgress = FALSE
  /\ la_logoLoadTimeout = FALSE
  /\ la_animationSegmentTimeout = FALSE
  /\ la_nextAnimationTimeout = FALSE
  /\ la_glowTimeout = FALSE
  /\ la_segmentTarget = <<0, 0>>
  /\ la_restartFrame = FALSE
  /\ la_innerWidth = 0
  /\ la_innerHeight = 0
  /\ la_logoRect = Null
  /\ la_left = 0
  /\ la_top = 0
  /\ la_cssVars = Null
  /\ la_glow = FALSE
  /\ la_pre = LA_NoStep
  /\ la_ev = LA_NoEvents
  /\ LA_NoInputs

----------------------------------------------------------------------------
(***************************************************************************)
(* Part III: the segment-based page, src/index-css.js                      *)
(*                                                                         *)
(* calculateNextPosition() plans one straight segment up to the first wall *)
(* on the way.  Positions are in mpx and velocities in px per second, so a *)
(* time is the fraction n / d milliseconds with n in mpx and d in px/s;    *)
(* times are compared by cross-multiplication.  d = 0 stands for Infinity. *)
(***************************************************************************)

\* Math.cos(angle) * speed and Math.sin(angle) * speed, px per second
seg_velocityX0 == 153
seg_velocityY0 == 129
\* the corner tolerance 0.1 s, in ms
seg_cornerTolerance == 100

Infinity == [n |-> 1, d |-> 0]

\* timeToHitX / timeToHitY and hitXWall / hitYWall of one axis
Seg_timeToHit(current, velocity, lowBound, highBound, lowWall, highWall) ==
  IF velocity > 0
    THEN [time |-> [n |-> highBound - current, d |-> velocity], wall |-> highWall]
    ELSE IF velocity < 0
      THEN [time |-> [n |-> current - lowBound, d |-> -velocity], wall |-> lowWall]
      ELSE [time |-> Infinity, wall |-> ""]

\* a <= b on times
TimeLeq(a, b) ==
  IF a.d = 0 THEN b.d = 0
  ELSE IF b.d = 0 THEN TRUE
  ELSE a.n * b.d <= b.n * a.d

\* Math.min(a, b) on times
TimeMin(a, b) == IF TimeLeq(a, b) THEN a ELSE b

\* Math.abs(a - b) < 0.1 on times (false when a time is Infinity)
TimeWithinTolerance(a, b) ==
  /\ a.d # 0
  /\ b.d # 0
  /\ Abs(a.n * b.d - b.n * a.d) < seg_cornerTolerance * a.d * b.d

\* current + velocity * timeToHit, then the clamp into the bounds.  With
\* both velocities zero timeToHit is Infinity and the product is NaN; the
\* velocities are never zero (they are only ever negated), and the position
\* is then left where it is.
Seg_next(current, velocity, timeToHit, lowBound, highBound) ==
  LET next == IF timeToHit.d = 0
                THEN current
                ELSE current + RoundDiv(velocity * timeToHit.n, timeToHit.d)
  IN Max(lowBound, Min(highBound, next))

\* Math.abs(timeToHitX - timeToHitY) < 0.1 && !!hitXWall && !!hitYWall
Seg_hitCorner(timeToHitX, timeToHitY, hitXWall, hitYWall) ==
  /\ TimeWithinTolerance(timeToHitX, timeToHitY)
  /\ hitXWall # ""
  /\ hitYWall # ""

\* toggleGlow(duration)
Seg_toggleGlow ==
  IF seg_glow
    THEN UNCHANGED <<seg_glow, seg_glowTimeout>>
    ELSE /\ seg_glow' = TRUE
         /\ seg_glowTimeout' = SetTimeout(ClearTimeout(seg_glowTimeout))

\* calculateNextPosition(), called when currentX and currentY hold the given
\* values and the timer of nextAnimationTimeout is armed or not
Seg_calculateNextPositionFrom(currentX, currentY, nextArmed) ==
  LET logoWidth == seg_logoRect.width
      logoHeight == seg_logoRect.height
      curX == LA_actualPosition(seg_left, currentX)
      curY == LA_actualPosition(seg_top, currentY)
      left == logoWidth \div 2
      right == seg_innerWidth * Px - logoWidth \div 2
      top == logoHeight \div 2
      bottom == seg_innerHeight * Px - logoHeight \div 2
      tx == Seg_timeToHit(curX, seg_velocityX, left, right, "left", "right")
      ty == Seg_timeToHit(curY, seg_velocityY, top, bottom, "top", "bottom")
      timeToHit == TimeMin(tx.time, ty.time)
      nextX == Seg_next(curX, seg_velocityX, timeToHit, left, right)
      nextY == Seg_next(curY, seg_velocityY, timeToHit, top, bottom)
      hitWallX == TimeLeq(tx.time, ty.time) /\ tx.wall # ""
      hitWallY == TimeLeq(ty.time, tx.time) /\ ty.wall # ""
      hitCorner == Seg_hitCorner(tx.time, ty.time, tx.wall, ty.wall)
  IN /\ IF hitCorner THEN Seg_toggleGlow
                     ELSE UNCHANGED <<seg_glow, seg_glowTimeout>>
     /\ seg_velocityX' = IF hitWallX \/ hitCorner THEN -seg_velocityX
                                                  ELSE seg_velocityX
     /\ seg_velocityY' = IF hitWallY \/ hitCorner THEN -seg_velocityY
                                                  ELSE seg_velocityY
     /\ seg_cssVars' = [startX |-> curX, startY |-> curY,
                        targetX |-> nextX, targetY |-> nextY]
     /\ seg_currentX' = nextX
     /\ seg_currentY' = nextY
     /\ seg_animationInProgress' = TRUE
     /\ seg_restartFrame' = TRUE
     /\ seg_animationSegmentTimeout' =
          SetTimeout(ClearTimeout(seg_animationSegmentTimeout))
     /\ seg_nextAnimationTimeout' = ClearTimeout(nextArmed)
     /\ seg_segmentTarget' = <<nextX, nextY>>
     /\ seg_pre' = [stepped |-> TRUE, x |-> curX, y |-> curY,
                    vx |-> seg_velocityX, vy |-> seg_velocityY,
                    left |-> left, right |-> right,
                    top |-> top, bottom |-> bottom]
     /\ seg_ev' = [hitWallX |-> hitWallX, hitWallY |-> hitWallY,
                   hitCorner |-> hitCorner]
     /\ UNCHANGED <<seg_resizeTimeout, seg_innerWidth, seg_innerHeight,
                    seg_logoRect, seg_left, seg_top>>

\* calculateNextPosition() in the current state
Seg_calculateNextPosition ==
  /\ Seg_calculateNextPositionFrom(seg_currentX, seg_currentY,
                                   seg_nextAnimationTimeout)
  /\ UNCHANGED <<seg_logoLoadTimeout, seg_loadViewport>>

Seg_NoStep == [stepped |-> FALSE, x |-> 0, y |-> 0, vx |-> 0, vy |-> 0,
               left |-> 0, right |-> 0, top |-> 0, bottom |-> 0]
Seg_NoEvents == [hitWallX |-> FALSE, hitWallY |-> FALSE, hitCorner |-> FALSE]

\* No timer is orphaned, no input has come
Seg_NoInputs ==
  /\ seg_orphanedNext = 0
  /\ seg_loadViewport = <<0, 0>>
  /\ seg_positioned = TRUE
  /\ seg_op = "init"
  /\ seg_events = 0
  /\ seg_loaded = FALSE

\* What a step of the animation leaves alone
Seg_inputs ==
  <<seg_orphanedNext, seg_positioned, seg_op, seg_events, seg_loaded>>

\* The segment-based page is not open
Seg_Idle ==
  /\ seg_velocityX = 0
  /\ seg_velocityY = 0
  /\ seg_currentX = 0
  /\ seg_currentY = 0
  /\ seg_animationInProgress = FALSE
  /\ seg_logoLoadTimeout = FALSE
  /\ seg_animationSegmentTimeout = FALSE
  /\ seg_nextAnimationTimeout = FALSE
  /\ seg_glowTimeout = FALSE
  /\ seg_resizeTimeout = FALSE
  /\ seg_segmentTarget = <<0, 0>>
  /\ seg_restartFrame = FALSE
  /\ seg_innerWidth = 0
  /\ seg_innerHeight = 0
  /\ seg_logoRect = Null
  /\ seg_left = 0
  /\ seg_top = 0
  /\ seg_cssVars = Null
  /\ seg_glow = FALSE
  /\ seg_pre = Seg_NoStep
  /\ seg_ev = Seg_NoEvents
  /\ Seg_NoInputs

----------------------------------------------------------------------------
(***************************************************************************)
(* Part IV: debounce, src/debounce.js                                      *)
(*                                                                         *)
(* The closure of one debounced function is a record.  `timeout` is TRUE   *)
(* when the variable holds the handle of an armed timer; lastArgs and      *)
(* lastThis hold a value or Undefined.  An arguments array is truthy and   *)
(* differs from undefined, even when it is empty.                          *)
(***************************************************************************)

Undefined == "undefined"

\* Receivers of a call: none (a plain call in module code) or an object
Receivers == {Undefined, "object"}
ArgsValues == {"args1", "args2"}

\* debounce(func, wait, options): the closure after construction
debounce(leading, trailing) ==
  [timeout |-> FALSE, lastArgs |-> Undefined, lastThis |-> Undefined,
   isInvoked |-> FALSE, leading |-> leading, trailing |-> trailing]

\* Nothing was invoked
NotInvoked(d) == [d |-> d, invoked |-> FALSE, args |-> Undefined, this |-> Undefined]

\* invoke(): the closure afterwards, and whether and how func was applied
invoke(d) ==
  IF d.lastArgs = Undefined \/ d.lastThis = Undefined
    THEN NotInvoked(d)
    ELSE [d |-> [d EXCEPT !.lastArgs = Undefined, !.lastThis = Undefined,
                          !.isInvoked = TRUE],
          invoked |-> TRUE, args |-> d.lastArgs, this |-> d.lastThis]

\* clear(): the timer held is cancelled
clear(d) == [d EXCEPT !.timeout = FALSE]

\* debounced.apply(this, args): the leading-edge invocation if any, clear(),
\* and a new timer armed
debounced(d, this, args) ==
  LET d1 == [d EXCEPT !.lastArgs = args, !.lastThis = this]
      r == IF ~d1.timeout /\ d1.leading /\ ~d1.isInvoked THEN invoke(d1)
                                                          ELSE NotInvoked(d1)
  IN [r EXCEPT !.d = [clear(r.d) EXCEPT !.timeout = TRUE]]

\* The timer callback: the trailing-edge invocation if any
debounceTimer(d) ==
  LET r == IF d.trailing /\ (d.lastArgs # Undefined \/ ~d.isInvoked)
             THEN invoke(d) ELSE NotInvoked(d)
  IN [r EXCEPT !.d = [r.d EXCEPT !.isInvoked = FALSE, !.timeout = FALSE]]

\* Waits (ms) of the debounced functions that are checked
Waits == {1, 2}

\* db_call: debounced is called with some receiver and arguments.  A call
\* that comes when the timer is due comes after the timer's callback.
db_call ==
  /\ db_calls < MaxCalls
  /\ db_now < MaxTime
  /\ ~(db.timeout /\ db_deadline <= db_now)
  /\ \E this \in Receivers, args \in ArgsValues :
       LET r == debounced(db, this, args) IN
         /\ db' = r.d
         /\ db_lastCallArgs' = args
         /\ db_lastCallThis' = this
         /\ db_burstInvoked' = (IF db.timeout THEN db_burstInvoked ELSE 0)
                                 + (IF r.invoked THEN 1 ELSE 0)
         /\ IF r.invoked
              THEN db_invokedArgs' = r.args /\ db_invokedAt' = db_now
              ELSE UNCHANGED <<db_invokedArgs, db_invokedAt>>
  /\ db_deadline' = db_now + db_wait
  /\ db_lastCallTime' = db_now
  /\ db_burstCalls' = IF db.timeout THEN db_burstCalls + 1 ELSE 1
  /\ db_cancelState' = CASE db_cancelState = "none" -> "none"
                          [] db_cancelState = "cancelled" -> "called"
                          [] OTHER -> "later"
  /\ db_calls' = db_calls + 1
  /\ db_op' = "call"
  /\ UNCHANGED <<db_wait, db_now>>
  /\ UNCHANGED notDebounce

\* db_timer: the armed timer fires, wait ms after the call that armed it
db_timer ==
  /\ db.timeout
  /\ db_deadline = db_now
  /\ LET r == debounceTimer(db) IN
       /\ db' = r.d
       /\ db_burstInvoked' = db_burstInvoked + (IF r.invoked THEN 1 ELSE 0)
       /\ IF r.invoked
            THEN db_invokedArgs' = r.args /\ db_invokedAt' = db_now
            ELSE UNCHANGED <<db_invokedArgs, db_invokedAt>>
  /\ db_deadline' = 0
  /\ db_op' = "timer"
  /\ UNCHANGED <<db_wait, db_now, db_calls, db_lastCallTime, db_lastCallArgs,
                 db_burstCalls, db_lastCallThis, db_cancelState>>
  /\ UNCHANGED notDebounce

\* db_cancel: debounced.cancel()
db_cancel ==
  /\ db_calls < MaxCalls
  /\ db_now < MaxTime
  /\ ~(db.timeout /\ db_deadline <= db_now)
  /\ db' = clear(db)
  /\ db_deadline' = 0
  /\ db_op' = "cancel"
  /\ db_cancelState' = "cancelled"
  /\ db_calls' = db_calls + 1
  /\ UNCHANGED <<db_wait, db_now, db_lastCallTime, db_lastCallArgs,
                 db_burstInvoked, db_invokedArgs, db_invokedAt, db_burstCalls,
                 db_lastCallThis>>
  /\ UNCHANGED notDebounce

\* db_tick: a millisecond passes; a due timer fires first
db_tick ==
  /\ ~(db.timeout /\ db_deadline <= db_now)
  /\ db_now < MaxTime \/ db.timeout
  /\ db_now' = db_now + 1
  /\ db_op' = "tick"
  /\ UNCHANGED <<db, db_wait, db_deadline, db_calls, db_lastCallTime,
                 db_lastCallArgs, db_burstInvoked, db_invokedArgs,
                 db_invokedAt, db_burstCalls, db_lastCallThis, db_cancelState>>
  /\ UNCHANGED notDebounce

\* No debounced function is under test
Db_Idle ==
  /\ db = debounce(FALSE, TRUE)
  /\ db_wait = 0
  /\ db_now = 0
  /\ db_deadline = 0
  /\ db_op = "init"
  /\ db_calls = 0
  /\ db_lastCallTime = 0
  /\ db_lastCallArgs = Undefined
  /\ db_burstInvoked = 0
  /\ db_invokedArgs = Undefined
  /\ db_invokedAt = 0
  /\ db_burstCalls = 0
  /\ db_lastCallThis = Undefined
  /\ db_cancelState = "none"

----------------------------------------------------------------------------
(***************************************************************************)
(* Part V: FPSMeter, src/fps-meter.js                                      *)
(*                                                                         *)
(* The elements the meter creates are numbered in the order of creation;   *)
(* this.element holds the number of the last one.  A callback registered   *)
(* with requestAnimationFrame stays pending until the browser runs it:     *)
(* nothing in the class cancels one.  The text and the colours of the      *)
(* display are not modelled.                                               *)
(***************************************************************************)

\* Milliseconds between measure() and its animation-frame callback
FpsFrameGaps == {16, 40}

\* measure(): one more animation-frame callback is pending
measure(pending) == pending + 1

\* start()
fps_start ==
  /\ fps_calls < MaxMeterCalls
  /\ IF ~fps_isRunning
       THEN /\ fps_isRunning' = TRUE
            /\ IF fps_ui
                 THEN /\ fps_element' = fps_element + 1
                      /\ fps_attached' = fps_attached \cup {fps_element + 1}
                 ELSE UNCHANGED <<fps_element, fps_attached>>
            /\ fps_pending' = measure(fps_pending)
       ELSE UNCHANGED <<fps_isRunning, fps_element, fps_attached, fps_pending>>
  /\ fps_op' = "start"
  /\ fps_calls' = fps_calls + 1
  /\ UNCHANGED <<fps_ui, fps_fps>>
  /\ UNCHANGED notFps

\* pause()
pause ==
  /\ fps_isRunning' = FALSE
  /\ UNCHANGED <<fps_ui, fps_fps, fps_element, fps_attached, fps_pending>>

\* resume()
resume ==
  /\ IF ~fps_isRunning
       THEN fps_isRunning' = TRUE /\ fps_pending' = measure(fps_pending)
       ELSE UNCHANGED <<fps_isRunning, fps_pending>>
  /\ UNCHANGED <<fps_ui, fps_fps, fps_element, fps_attached>>

fps_pause ==
  /\ fps_calls < MaxMeterCalls
  /\ pause
  /\ fps_op' = "pause"
  /\ fps_calls' = fps_calls + 1
  /\ UNCHANGED notFps

fps_resume ==
  /\ fps_calls < MaxMeterCalls
  /\ resume
  /\ fps_op' = "resume"
  /\ fps_calls' = fps_calls + 1
  /\ UNCHANGED notFps

\* toggle()
fps_toggle ==
  /\ fps_calls < MaxMeterCalls
  /\ IF fps_isRunning THEN pause ELSE resume
  /\ fps_op' = "toggle"
  /\ fps_calls' = fps_calls + 1
  /\ UNCHANGED notFps

\* stop(); element.remove() of an element that is not attached does nothing
fps_stop ==
  /\ fps_calls < MaxMeterCalls
  /\ IF fps_isRunning
       THEN /\ fps_isRunning' = FALSE
            /\ IF fps_ui /\ fps_element # 0
                 THEN fps_attached' = fps_attached \ {fps_element}
                 ELSE UNCHANGED fps_attached
       ELSE UNCHANGED <<fps_isRunning, fps_attached>>
  /\ fps_op' = "stop"
  /\ fps_calls' = fps_calls + 1
  /\ UNCHANGED <<fps_ui, fps_fps, fps_element, fps_pending>>
  /\ UNCHANGED notFps

\* The animation-frame callback registered by measure()
fps_frame ==
  /\ fps_pending > 0
  /\ \E gap \in FpsFrameGaps : fps_fps' = RoundDiv(1000, gap)
  /\ fps_pending' = IF fps_isRunning THEN measure(fps_pending - 1)
                                     ELSE fps_pending - 1
  /\ fps_op' = "frame"
  /\ UNCHANGED <<fps_ui, fps_isRunning, fps_element, fps_attached, fps_calls>>
  /\ UNCHANGED notFps

\* new FPSMeter({ ui }): the meter after construction
FPSMeter(ui) ==
  /\ fps_ui = ui
  /\ fps_isRunning = FALSE
  /\ fps_fps = 0
  /\ fps_element = 0
  /\ fps_attached = {}
  /\ fps_pending = 0
  /\ fps_op = "init"
  /\ fps_calls = 0

\* window.fpsMeter, never started
Fps_Idle == FPSMeter(TRUE)

----------------------------------------------------------------------------
(***************************************************************************)
(* Part VI: the events and timers of the timer-driven pages                *)
(*                                                                         *)
(* The callbacks of the armed timers and of the pending animation frame    *)
(* run one at a time, in any order, interleaved with the input events.     *)
(* The logo image is 2:1 and the page reserves its box before it loads.    *)
(***************************************************************************)

\* Viewports (px) of the pages; the logo box is 200 x 100 px, so the logo
\* has 4 px of room horizontally and none vertically, or no room at all
TimerViewports == {<<204, 100>>, <<200, 100>>}

\* Math.cos(angle) * speed, Math.sin(angle) * speed for 40 degrees and 300
\* px/s, in mpx/s, rounded to a multiple of 60
la_velocityX0 == 229800
la_velocityY0 == 192840

\* logo.getBoundingClientRect() after logo.style.width = max(20% of the
\* viewport width, 200 px)
LogoRectFor(viewportWidth) ==
  LET baseWidth == Max(viewportWidth \div 5, 200 * Px)
  IN [width |-> baseWidth, height |-> baseWidth \div 2]

\* this.debouncedResize() has no arguments: an empty array
EmptyArgs == "[]"

\* The page is open: its LogoAnimator is constructed
LA_open == la_debounce # Null

\* Variant of updateLogoDimensions that keeps the cached viewport
LA_updateLogoDimensionsKeepsViewport(logoLoadArmed) ==
  /\ UNCHANGED la_viewportDimensions
  /\ la_logoRect' = LogoRectFor(LA_viewport.width)
  /\ la_logoLoadTimeout' = SetTimeout(ClearTimeout(logoLoadArmed))

\* updateLogoDimensions(), up to the timer it arms; logoLoadArmed tells
\* whether the timer of logoLoadTimeout is armed when it is called
LA_updateLogoDimensions(logoLoadArmed) ==
  /\ la_viewportDimensions' = LA_viewport
  /\ la_logoRect' = LogoRectFor(LA_viewport.width)
  /\ la_logoLoadTimeout' = SetTimeout(ClearTimeout(logoLoadArmed))

\* The callback of requestAnimationFrame in calculateNextPosition
LA_animationFrame ==
  /\ la_restartFrame
  /\ la_left' = la_cssVars.startX
  /\ la_top' = la_cssVars.startY
  /\ la_positioned' = TRUE
  /\ la_restartFrame' = FALSE
  /\ la_op' = "animationFrame"
  /\ UNCHANGED <<la_velocityX, la_velocityY, la_currentX, la_currentY,
                 la_logoDimensions, la_viewportDimensions,
                 la_animationInProgress, la_logoLoadTimeout,
                 la_animationSegmentTimeout, la_nextAnimationTimeout,
                 la_glowTimeout, la_segmentTarget, la_innerWidth,
                 la_innerHeight, la_logoRect, la_cssVars, la_glow, la_pre,
                 la_ev, la_orphanedNext, la_debounce, la_stale, la_resized,
                 la_events>>
  /\ UNCHANGED <<la_loaded, notLogoAnimator, frames>>

\* The callback of animationSegmentTimeout
LA_segmentTimer ==
  /\ la_animationSegmentTimeout
  /\ la_left' = la_segmentTarget[1]
  /\ la_top' = la_segmentTarget[2]
  /\ la_positioned' = TRUE
  /\ la_animationSegmentTimeout' = FALSE
  /\ la_nextAnimationTimeout' = SetTimeout(la_nextAnimationTimeout)
  /\ la_orphanedNext' = la_orphanedNext + (IF la_nextAnimationTimeout THEN 1 ELSE 0)
  /\ la_op' = "segment"
  /\ UNCHANGED <<la_velocityX, la_velocityY, la_currentX, la_currentY,
                 la_logoDimensions, la_viewportDimensions,
                 la_animationInProgress, la_logoLoadTimeout, la_glowTimeout,
                 la_segmentTarget, la_restartFrame, la_innerWidth,
                 la_innerHeight, la_logoRect, la_cssVars, la_glow, la_pre,
                 la_ev, la_debounce, la_stale, la_resized, la_events>>
  /\ UNCHANGED <<la_loaded, notLogoAnimator, frames>>

\* The callback of a nextAnimationTimeout timer, the one whose handle the
\* field holds or an orphaned one: animationInProgress = false, then
\* calculateNextPosition()
LA_nextAnimationTimer ==
  /\ \E held \in BOOLEAN :
       /\ IF held THEN la_nextAnimationTimeout ELSE la_orphanedNext > 0
       /\ LA_calculateNextPositionFrom(
            la_logoDimensions, la_viewportDimensions, la_currentX,
            la_currentY, IF held THEN FALSE ELSE la_nextAnimationTimeout)
       /\ la_orphanedNext' = IF held THEN la_orphanedNext
                                     ELSE la_orphanedNext - 1
  /\ la_op' = "nextAnimation"
  /\ UNCHANGED <<la_logoLoadTimeout, la_debounce, la_positioned, la_stale,
                 la_resized, la_events>>
  /\ UNCHANGED <<la_loaded, notLogoAnimator, frames>>

\* The callback of logoLoadTimeout: updateLogoDimensionsAndBounds(), the
\* logo's position and the CSS variables reset to the centre, and
\* calculateNextPosition() unless a segment is in progress
LA_logoLoadTimer ==
  /\ la_logoLoadTimeout
  /\ LET viewport == IF la_viewportDimensions = Null THEN LA_viewport
                                                     ELSE la_viewportDimensions
         dimensions == LA_logoDimensions(viewport, la_logoRect)
         centreX == viewport.width \div 2
         centreY == viewport.height \div 2
     IN IF ~la_animationInProgress
          THEN LA_calculateNextPositionFrom(dimensions, viewport, centreX,
                                            centreY, la_nextAnimationTimeout)
          ELSE /\ la_logoDimensions' = dimensions
               /\ la_viewportDimensions' = viewport
               /\ la_currentX' = centreX
               /\ la_currentY' = centreY
               /\ la_cssVars' = [startX |-> centreX, startY |-> centreY,
                                 targetX |-> centreX, targetY |-> centreY]
               /\ UNCHANGED <<la_velocityX, la_velocityY,
                              la_animationInProgress,
                              la_animationSegmentTimeout,
                              la_nextAnimationTimeout, la_glowTimeout,
                              la_segmentTarget, la_restartFrame,
                              la_innerWidth, la_innerHeight, la_logoRect,
                              la_left, la_top, la_glow, la_pre, la_ev>>
  /\ la_logoLoadTimeout' = FALSE
  /\ la_stale' = IF la_stale = "stale" THEN "recomputed" ELSE la_stale
  /\ la_op' = IF la_animationInProgress THEN "logoLoad" ELSE "logoLoadStep"
  /\ UNCHANGED <<la_orphanedNext, la_debounce, la_positioned, la_resized,
                 la_events>>
  /\ UNCHANGED <<la_loaded, notLogoAnimator, frames>>

\* A resize event: the window has a new size and handleResize() calls
\* this.debouncedResize()
LA_resize ==
  /\ LA_open
  /\ la_events < MaxInputs
  /\ \E size \in TimerViewports :
       /\ size # <<la_innerWidth, la_innerHeight>>
       /\ la_innerWidth' = size[1]
       /\ la_innerHeight' = size[2]
       /\ la_left' = IF la_positioned THEN la_left ELSE (size[1] * Px) \div 2
       /\ la_top' = IF la_positioned THEN la_top ELSE (size[2] * Px) \div 2
  /\ la_debounce' = debounced(la_debounce, "object", EmptyArgs).d
  /\ la_resized' = TRUE
  /\ la_op' = "resize"
  /\ la_events' = la_events + 1
  /\ UNCHANGED <<la_velocityX, la_velocityY, la_currentX, la_currentY,
                 la_logoDimensions, la_viewportDimensions,
                 la_animationInProgress, la_logoLoadTimeout,
                 la_animationSegmentTimeout, la_nextAnimationTimeout,
                 la_glowTimeout, la_segmentTarget, la_restartFrame,
                 la_logoRect, la_cssVars, la_glow, la_pre, la_ev,
                 la_orphanedNext, la_positioned, la_stale>>
  /\ UNCHANGED <<la_loaded, notLogoAnimator, frames>>

\* The timer of debouncedResize fires; when it invokes the resize handler:
\* animationInProgress = false, clearAllTimeouts(), updateLogoDimensions()
LA_debounceTimer ==
  /\ LA_open
  /\ la_debounce.timeout
  /\ LET r == debounceTimer(la_debounce) IN
       /\ la_debounce' = r.d
       /\ IF r.invoked
            THEN /\ la_animationInProgress' = FALSE
                 /\ la_animationSegmentTimeout' =
                      ClearTimeout(la_animationSegmentTimeout)
                 /\ la_nextAnimationTimeout' =
                      ClearTimeout(la_nextAnimationTimeout)
                 /\ la_glowTimeout' = ClearTimeout(la_glowTimeout)
                 /\ LA_updateLogoDimensions(ClearTimeout(la_logoLoadTimeout))
                 /\ la_stale' = "stale"
                 /\ la_resized' = FALSE
                 /\ la_op' = "resizeHandler"
            ELSE /\ la_op' = "resizeDropped"
                 /\ UNCHANGED <<la_animationInProgress,
                                la_animationSegmentTimeout,
                                la_nextAnimationTimeout, la_glowTimeout,
                                la_viewportDimensions, la_logoRect,
                                la_logoLoadTimeout, la_stale, la_resized>>
  /\ UNCHANGED <<la_velocityX, la_velocityY, la_currentX, la_currentY,
                 la_logoDimensions, la_segmentTarget, la_restartFrame,
                 la_innerWidth, la_innerHeight, la_left, la_top, la_cssVars,
                 la_glow, la_pre, la_ev, la_orphanedNext, la_positioned,
                 la_events>>
  /\ UNCHANGED <<la_loaded, notLogoAnimator, frames>>

\* The load event of the logo image: updateLogoDimensions()
LA_load ==
  /\ LA_open
  /\ ~la_loaded
  /\ LA_updateLogoDimensions(la_logoLoadTimeout)
  /\ la_op' = "load"
  /\ UNCHANGED <<la_velocityX, la_velocityY, la_currentX, la_currentY,
                 la_logoDimensions, la_animationInProgress,
                 la_animationSegmentTimeout, la_nextAnimationTimeout,
                 la_glowTimeout, la_segmentTarget, la_restartFrame,
                 la_innerWidth, la_innerHeight, la_left, la_top, la_cssVars,
                 la_glow, la_pre, la_ev, la_orphanedNext, la_debounce,
                 la_positioned, la_stale, la_resized, la_events>>
  /\ la_loaded' = TRUE
  /\ UNCHANGED <<notLogoAnimator, frames>>

\* A keydown event of the key g: toggleGlow()
LA_keydown ==
  /\ LA_open
  /\ la_events < MaxInputs
  /\ LA_toggleGlow
  /\ la_op' = "keydown"
  /\ la_events' = la_events + 1
  /\ UNCHANGED <<la_velocityX, la_velocityY, la_currentX, la_currentY,
                 la_logoDimensions, la_viewportDimensions,
                 la_animationInProgress, la_logoLoadTimeout,
                 la_animationSegmentTimeout, la_nextAnimationTimeout,
                 la_segmentTarget, la_restartFrame, la_innerWidth,
                 la_innerHeight, la_logoRect, la_left, la_top, la_cssVars,
                 la_pre, la_ev, la_orphanedNext, la_debounce, la_positioned,
                 la_stale, la_resized>>
  /\ UNCHANGED <<la_loaded, notLogoAnimator, frames>>

\* The callback of glowTimeout
LA_glowTimer ==
  /\ la_glowTimeout
  /\ la_glow' = FALSE
  /\ la_glowTimeout' = FALSE
  /\ la_op' = "glowEnd"
  /\ UNCHANGED <<la_velocityX, la_velocityY, la_currentX, la_currentY,
                 la_logoDimensions, la_viewportDimensions,
                 la_animationInProgress, la_logoLoadTimeout,
                 la_animationSegmentTimeout, la_nextAnimationTimeout,
                 la_segmentTarget, la_restartFrame, la_innerWidth,
                 la_innerHeight, la_logoRect, la_left, la_top, la_cssVars,
                 la_pre, la_ev, la_orphanedNext, la_debounce, la_positioned,
                 la_stale, la_resized, la_events>>
  /\ UNCHANGED <<la_loaded, notLogoAnimator, frames>>

\* The page after new LogoAnimator(...) and initialize(), the image loaded
\* already or not
LA_initialize ==
  /\ la_velocityX = la_velocityX0
  /\ la_velocityY = la_velocityY0
  /\ \E size \in TimerViewports :
       /\ la_innerWidth = size[1]
       /\ la_innerHeight = size[2]
  /\ la_currentX = LA_viewport.width \div 2
  /\ la_currentY = LA_viewport.height \div 2
  /\ la_logoDimensions = Null
  /\ la_viewportDimensions = LA_viewport
  /\ la_logoRect = LogoRectFor(LA_viewport.width)
  /\ la_animationInProgress = FALSE
  /\ la_logoLoadTimeout = TRUE
  /\ la_animationSegmentTimeout = FALSE
  /\ la_nextAnimationTimeout = FALSE
  /\ la_glowTimeout = FALSE
  /\ la_segmentTarget = <<0, 0>>
  /\ la_restartFrame = FALSE
  /\ la_left = LA_viewport.width \div 2
  /\ la_top = LA_viewport.height \div 2
  /\ la_cssVars = Null
  /\ la_glow = FALSE
  /\ la_pre = LA_NoStep
  /\ la_ev = LA_NoEvents
  /\ la_orphanedNext = 0
  /\ la_debounce = debounce(FALSE, TRUE)
  /\ la_positioned = FALSE
  /\ la_stale = "initial"
  /\ la_resized = FALSE
  /\ la_op = "initialize"
  /\ la_events = 0
  /\ la_loaded \in BOOLEAN

\* The segment-based page is open: its script has run
Seg_open == seg_op # "init"

\* updateLogoDimensions(), up to the timer it arms
Seg_updateLogoDimensions(logoLoadArmed) ==
  /\ seg_logoRect' = LogoRectFor(seg_innerWidth * Px)
  /\ seg_loadViewport' = <<seg_innerWidth * Px, seg_innerHeight * Px>>
  /\ seg_logoLoadTimeout' = SetTimeout(ClearTimeout(logoLoadArmed))

\* The callback of requestAnimationFrame in calculateNextPosition
Seg_animationFrame ==
  /\ seg_restartFrame
  /\ seg_left' = seg_cssVars.startX
  /\ seg_top' = seg_cssVars.startY
  /\ seg_positioned' = TRUE
  /\ seg_restartFrame' = FALSE
  /\ seg_op' = "animationFrame"
  /\ UNCHANGED <<seg_velocityX, seg_velocityY, seg_currentX, seg_currentY,
                 seg_animationInProgress, seg_logoLoadTimeout,
                 seg_animationSegmentTimeout, seg_nextAnimationTimeout,
                 seg_glowTimeout, seg_resizeTimeout, seg_segmentTarget,
                 seg_innerWidth, seg_innerHeight, seg_logoRect, seg_cssVars,
                 seg_glow, seg_pre, seg_ev, seg_orphanedNext,
                 seg_loadViewport, seg_events>>
  /\ UNCHANGED <<seg_loaded, notSegment, frames>>

\* The callback of animationSegmentTimeout
Seg_segmentTimer ==
  /\ seg_animationSegmentTimeout
  /\ seg_left' = seg_segmentTarget[1]
  /\ seg_top' = seg_segmentTarget[2]
  /\ seg_positioned' = TRUE
  /\ seg_animationSegmentTimeout' = FALSE
  /\ seg_nextAnimationTimeout' = SetTimeout(seg_nextAnimationTimeout)
  /\ seg_orphanedNext' = seg_orphanedNext + (IF seg_nextAnimationTimeout THEN 1 ELSE 0)
  /\ seg_op' = "segment"
  /\ UNCHANGED <<seg_velocityX, seg_velocityY, seg_currentX, seg_currentY,
                 seg_animationInProgress, seg_logoLoadTimeout,
                 seg_glowTimeout, seg_resizeTimeout, seg_segmentTarget,
                 seg_restartFrame, seg_innerWidth, seg_innerHeight,
                 seg_logoRect, seg_cssVars, seg_glow, seg_pre, seg_ev,
                 seg_loadViewport, seg_events>>
  /\ UNCHANGED <<seg_loaded, notSegment, frames>>

\* The callback of a nextAnimationTimeout timer, the one whose handle the
\* variable holds or an orphaned one
Seg_nextAnimationTimer ==
  /\ \E held \in BOOLEAN :
       /\ IF held THEN seg_nextAnimationTimeout ELSE seg_orphanedNext > 0
       /\ Seg_calculateNextPositionFrom(
            seg_currentX, seg_currentY,
            IF held THEN FALSE ELSE seg_nextAnimationTimeout)
       /\ seg_orphanedNext' = IF held THEN seg_orphanedNext
                                      ELSE seg_orphanedNext - 1
  /\ seg_op' = "nextAnimation"
  /\ UNCHANGED <<seg_logoLoadTimeout, seg_loadViewport, seg_positioned,
                 seg_events>>
  /\ UNCHANGED <<seg_loaded, notSegment, frames>>

\* The callback of logoLoadTimeout: the position and the CSS variables reset
\* to the centre of the viewport that updateLogoDimensions saw, and
\* calculateNextPosition() unless a segment is in progress
Seg_logoLoadTimer ==
  /\ seg_logoLoadTimeout
  /\ LET centreX == seg_loadViewport[1] \div 2
         centreY == seg_loadViewport[2] \div 2
     IN IF ~seg_animationInProgress
          THEN Seg_calculateNextPositionFrom(centreX, centreY,
                                             seg_nextAnimationTimeout)
          ELSE /\ seg_currentX' = centreX
               /\ seg_currentY' = centreY
               /\ seg_cssVars' = [startX |-> centreX, startY |-> centreY,
                                  targetX |-> centreX, targetY |-> centreY]
               /\ UNCHANGED <<seg_velocityX, seg_velocityY,
                              seg_animationInProgress,
                              seg_animationSegmentTimeout,
                              seg_nextAnimationTimeout, seg_glowTimeout,
                              seg_resizeTimeout, seg_segmentTarget,
                              seg_restartFrame, seg_innerWidth,
                              seg_innerHeight, seg_logoRect, seg_left,
                              seg_top, seg_glow, seg_pre, seg_ev>>
  /\ seg_logoLoadTimeout' = FALSE
  /\ seg_op' = IF seg_animationInProgress THEN "logoLoad" ELSE "logoLoadStep"
  /\ UNCHANGED <<seg_orphanedNext, seg_loadViewport, seg_positioned,
                 seg_events>>
  /\ UNCHANGED <<seg_loaded, notSegment, frames>>

\* A resize event: the window has a new size and the listener re-arms
\* resizeTimeout
Seg_resize ==
  /\ Seg_open
  /\ seg_events < MaxInputs
  /\ \E size \in TimerViewports :
       /\ size # <<seg_innerWidth, seg_innerHeight>>
       /\ seg_innerWidth' = size[1]
       /\ seg_innerHeight' = size[2]
       /\ seg_left' = IF seg_positioned THEN seg_left ELSE (size[1] * Px) \div 2
       /\ seg_top' = IF seg_positioned THEN seg_top ELSE (size[2] * Px) \div 2
  /\ seg_resizeTimeout' = SetTimeout(ClearTimeout(seg_resizeTimeout))
  /\ seg_op' = "resize"
  /\ seg_events' = seg_events + 1
  /\ UNCHANGED <<seg_velocityX, seg_velocityY, seg_currentX, seg_currentY,
                 seg_animationInProgress, seg_logoLoadTimeout,
                 seg_animationSegmentTimeout, seg_nextAnimationTimeout,
                 seg_glowTimeout, seg_segmentTarget, seg_restartFrame,
                 seg_logoRect, seg_cssVars, seg_glow, seg_pre, seg_ev,
                 seg_orphanedNext, seg_loadViewport, seg_positioned>>
  /\ UNCHANGED <<seg_loaded, notSegment, frames>>

\* The callback of resizeTimeout, the resize handler: animationInProgress =
\* false, clearAllTimeouts(), updateLogoDimensions()
Seg_resizeTimer ==
  /\ seg_resizeTimeout
  /\ seg_animationInProgress' = FALSE
  /\ seg_animationSegmentTimeout' = ClearTimeout(seg_animationSegmentTimeout)
  /\ seg_nextAnimationTimeout' = ClearTimeout(seg_nextAnimationTimeout)
  /\ seg_glowTimeout' = ClearTimeout(seg_glowTimeout)
  /\ seg_resizeTimeout' = FALSE
  /\ Seg_updateLogoDimensions(ClearTimeout(seg_logoLoadTimeout))
  /\ seg_op' = "resizeHandler"
  /\ UNCHANGED <<seg_velocityX, seg_velocityY, seg_currentX, seg_currentY,
                 seg_segmentTarget, seg_restartFrame, seg_innerWidth,
                 seg_innerHeight, seg_left, seg_top, seg_cssVars, seg_glow,
                 seg_pre, seg_ev, seg_orphanedNext, seg_positioned,
                 seg_events>>
  /\ UNCHANGED <<seg_loaded, notSegment, frames>>

\* The load event of the logo image: updateLogoDimensions()
Seg_load ==
  /\ Seg_open
  /\ ~seg_loaded
  /\ Seg_updateLogoDimensions(seg_logoLoadTimeout)
  /\ seg_op' = "load"
  /\ UNCHANGED <<seg_velocityX, seg_velocityY, seg_currentX, seg_currentY,
                 seg_animationInProgress, seg_animationSegmentTimeout,
                 seg_nextAnimationTimeout, seg_glowTimeout, seg_resizeTimeout,
                 seg_segmentTarget, seg_restartFrame, seg_innerWidth,
                 seg_innerHeight, seg_left, seg_top, seg_cssVars, seg_glow,
                 seg_pre, seg_ev, seg_orphanedNext, seg_positioned,
                 seg_events>>
  /\ seg_loaded' = TRUE
  /\ UNCHANGED <<notSegment, frames>>

\* A keydown event of the key g: toggleGlow()
Seg_keydown ==
  /\ Seg_open
  /\ seg_events < MaxInputs
  /\ Seg_toggleGlow
  /\ seg_op' = "keydown"
  /\ seg_events' = seg_events + 1
  /\ UNCHANGED <<seg_velocityX, seg_velocityY, seg_currentX, seg_currentY,
                 seg_animationInProgress, seg_logoLoadTimeout,
                 seg_animationSegmentTimeout, seg_nextAnimationTimeout,
                 seg_resizeTimeout, seg_segmentTarget, seg_restartFrame,
                 seg_innerWidth, seg_innerHeight, seg_logoRect, seg_left,
                 seg_top, seg_cssVars, seg_pre, seg_ev, seg_orphanedNext,
                 seg_loadViewport, seg_positioned>>
  /\ UNCHANGED <<seg_loaded, notSegment, frames>>

\* The callback of glowTimeout
Seg_glowTimer ==
  /\ seg_glowTimeout
  /\ seg_glow' = FALSE
  /\ seg_glowTimeout' = FALSE
  /\ seg_op' = "glowEnd"
  /\ UNCHANGED <<seg_velocityX, seg_velocityY, seg_currentX, seg_currentY,
                 seg_animationInProgress, seg_logoLoadTimeout,
                 seg_animationSegmentTimeout, seg_nextAnimationTimeout,
                 seg_resizeTimeout, seg_segmentTarget, seg_restartFrame,
                 seg_innerWidth, seg_innerHeight, seg_logoRect, seg_left,
                 seg_top, seg_cssVars, seg_pre, seg_ev, seg_orphanedNext,
                 seg_loadViewport, seg_positioned, seg_events>>
  /\ UNCHANGED <<seg_loaded, notSegment, frames>>

\* The page after its script has run, the image loaded already or not
Seg_initialize ==
  /\ seg_velocityX = seg_velocityX0
  /\ seg_velocityY = seg_velocityY0
  /\ \E size \in TimerViewports :
       /\ seg_innerWidth = size[1]
       /\ seg_innerHeight = size[2]
  /\ seg_currentX = (seg_innerWidth * Px) \div 2
  /\ seg_currentY = (seg_innerHeight * Px) \div 2
  /\ seg_logoRect = LogoRectFor(seg_innerWidth * Px)
  /\ seg_loadViewport = <<seg_innerWidth * Px, seg_innerHeight * Px>>
  /\ seg_animationInProgress = FALSE
  /\ seg_logoLoadTimeout = TRUE
  /\ seg_animationSegmentTimeout = FALSE
  /\ seg_nextAnimationTimeout = FALSE
  /\ seg_glowTimeout = FALSE
  /\ seg_resizeTimeout = FALSE
  /\ seg_segmentTarget = <<0, 0>>
  /\ seg_restartFrame = FALSE
  /\ seg_left = (seg_innerWidth * Px) \div 2
  /\ seg_top = (seg_innerHeight * Px) \div 2
  /\ seg_cssVars = Null
  /\ seg_glow = FALSE
  /\ seg_pre = Seg_NoStep
  /\ seg_ev = Seg_NoEvents
  /\ seg_orphanedNext = 0
  /\ seg_positioned = FALSE
  /\ seg_op = "initialize"
  /\ seg_events = 0
  /\ seg_loaded \in BOOLEAN

----------------------------------------------------------------------------
(***************************************************************************)
(* Part VII: the frame-driven LogoAnimator, src/logo-animator.js           *)
(*                                                                         *)
(* Angles are whole degrees, multiples of ten; cosines and sines are in    *)
(* thousandths.  currentX and currentY are normalised coordinates (mpx     *)
(* from the centre of the window).  Once updateCSSVariables() has added    *)
(* the class 'animate', the CSS animation moves the logo from (--start-x,  *)
(* --start-y) to (--target-x, --target-y) and the computed left and top    *)
(* are the animated values: fa_progress tells how far the animation was at *)
(* the last frame, in units of 1/ProgressSteps of the segment.  The        *)
(* timestamps of the frames and the duration of the animation are not      *)
(* modelled.                                                               *)
(***************************************************************************)

\* Windows (px): the logo is 200 px wide in the first and 300 px in the second
FrameViewports == {<<1000, 600>>, <<1500, 600>>}

\* options.angle of the constructor (degrees): the page's 40 and its
\* equivalents a turn above, below zero and more than a turn below zero
StartAngles == {40, 400, -40, -400}

\* Steps in which a segment of the animation is sampled by the frames
ProgressSteps == 2

\* a % m of JavaScript, for m > 0: the sign is that of a
JsMod(a, m) == IF a >= 0 THEN a % m ELSE -((-a) % m)

\* a / b rounded towards minus infinity, for b # 0
SDiv(a, b) == IF b > 0 THEN a \div b ELSE (-a) \div (-b)

\* 1000 * cos of 0, 10, ..., 90 degrees
CosTable == <<1000, 985, 940, 866, 766, 643, 500, 342, 174, 0>>

\* 1000 * Math.cos(angle) and 1000 * Math.sin(angle), angle in degrees
Cos1000(angle) ==
  LET a == ((angle % 360) + 360) % 360
  IN IF a <= 90 THEN CosTable[a \div 10 + 1]
     ELSE IF a <= 180 THEN -CosTable[(180 - a) \div 10 + 1]
     ELSE IF a <= 270 THEN -CosTable[(a - 180) \div 10 + 1]
     ELSE CosTable[(360 - a) \div 10 + 1]

Sin1000(angle) == Cos1000(angle - 90)

\* The largest integer whose square is at most n
Isqrt(n) == CHOOSE r \in 0..2000 : r * r <= n /\ (r + 1) * (r + 1) > n

\* calculateSpeedFromDuration(): px per second, for traversalDuration = 4
calculateSpeedFromDuration(innerWidth, innerHeight) ==
  Isqrt(innerWidth * innerWidth + innerHeight * innerHeight) \div 4

\* bottomEnd(), topEnd(), rightEnd(), leftEnd(): the edges of the window in
\* normalised coordinates (mpx)
bottomEnd == (fa_innerWidth * Px) \div 2
topEnd == -bottomEnd
rightEnd == (fa_innerHeight * Px) \div 2
leftEnd == -rightEnd

\* updateLogoDimensionsAndBounds(): the logoDimensions record it stores
FA_logoDimensions(logoRect) ==
  [width |-> logoRect.width,
   height |-> logoRect.height,
   leftBound |-> topEnd + logoRect.width \div 2,
   rightBound |-> bottomEnd - logoRect.width \div 2,
   topBound |-> leftEnd + logoRect.height \div 2,
   bottomBound |-> rightEnd - logoRect.height \div 2]

\* targetX() and targetY(): where the ray from (currentX, currentY) at the
\* angle meets the edge of the window
FA_target(angle, currentX, currentY) ==
  LET dx == Cos1000(angle)
      dy == Sin1000(angle)
      tx0 == IF dx > 0 THEN bottomEnd ELSE topEnd
      ty0 == currentY + SDiv(dy * (tx0 - currentX), dx)
      beyond == ty0 > rightEnd \/ ty0 < leftEnd
      ty == IF beyond THEN (IF dy > 0 THEN rightEnd ELSE leftEnd) ELSE ty0
      tx == IF beyond THEN currentX + SDiv(dx * (ty - currentY), dy) ELSE tx0
  IN [x |-> tx, y |-> ty]

\* normalizedToWindow(x, y)
normalizedToWindow(x, y) == [x |-> x + bottomEnd, y |-> y + rightEnd]

\* windowToNormalized(x, y)
windowToNormalized(x, y) == [x |-> x - bottomEnd, y |-> y - rightEnd]

\* updateCSSVariables(): the four position variables it sets
FA_cssVars(angle, currentX, currentY) ==
  LET startPos == normalizedToWindow(currentX, currentY)
      target == FA_target(angle, currentX, currentY)
      targetPos == normalizedToWindow(target.x, target.y)
  IN [startX |-> startPos.x, startY |-> startPos.y,
      targetX |-> targetPos.x, targetY |-> targetPos.y]

\* The computed left and top of the logo when the animation has made
\* progress / ProgressSteps of its way
FA_computed(progress) ==
  [left |-> fa_cssVars.startX
              + ((fa_cssVars.targetX - fa_cssVars.startX) * progress) \div ProgressSteps,
   top |-> fa_cssVars.startY
              + ((fa_cssVars.targetY - fa_cssVars.startY) * progress) \div ProgressSteps]

\* The reflections of mainLoop without the turn that ensures the logo moves
\* away from the wall
FA_reflectPlain(angle, hitLeft, hitRight, hitTop, hitBottom) ==
  LET a1 == IF (hitLeft \/ hitRight) /\ (hitTop \/ hitBottom)
              THEN JsMod(angle + 180, 360)
            ELSE IF hitLeft \/ hitRight THEN 180 - angle
            ELSE IF hitTop \/ hitBottom THEN -angle
            ELSE angle
      a2 == IF a1 < 0 THEN a1 + 360 ELSE a1
  IN JsMod(a2, 360)

\* The angle after the handling of the wall hits in mainLoop
FA_reflect(angle, hitLeft, hitRight, hitTop, hitBottom) ==
  LET turned(a) == JsMod(a + 180, 360)
      horizontal == 180 - angle
      vertical == -angle
      a1 == IF (hitLeft \/ hitRight) /\ (hitTop \/ hitBottom)
              THEN turned(angle)
            ELSE IF hitLeft \/ hitRight
              THEN (IF (hitLeft /\ Cos1000(horizontal) < 0)
                        \/ (hitRight /\ Cos1000(horizontal) > 0)
                      THEN turned(horizontal) ELSE horizontal)
            ELSE IF hitTop \/ hitBottom
              THEN (IF (hitTop /\ Sin1000(vertical) < 0)
                        \/ (hitBottom /\ Sin1000(vertical) > 0)
                      THEN turned(vertical) ELSE vertical)
            ELSE angle
      a2 == IF a1 < 0 THEN a1 + 360 ELSE a1
  IN JsMod(a2, 360)

\* toggleGlow(duration): the class is added and a timer that removes it is
\* armed, unless the class is there
FA_toggleGlow ==
  IF fa_glow
    THEN UNCHANGED <<fa_glow, fa_glowTimers>>
    ELSE /\ fa_glow' = TRUE
         /\ fa_glowTimers' = fa_glowTimers + 1

\* The page is open: its LogoAnimator is constructed
FA_open == fa_debounce # Null

\* The test of the first line of mainLoop is ignored
FA_neverStopped(isAnimating) == FALSE

\* if (!this.isAnimating) return;
FA_stopped(isAnimating) == ~isAnimating

\* mainLoop(timestamp), the animation-frame callback
FA_mainLoop ==
  /\ fa_animationFrameId
  /\ fa_frames < MaxLoopFrames
  /\ IF FA_stopped(fa_isAnimating)
       THEN /\ fa_animationFrameId' = FALSE
            /\ UNCHANGED <<fa_angle, fa_logoDimensions, fa_currentX,
                           fa_currentY, fa_cssVars, fa_progress, fa_glow,
                           fa_glowTimers, fa_pre>>
       ELSE \E progress \in fa_progress..ProgressSteps :
         LET computed == FA_computed(progress)
             windowX == IF computed.left # 0 THEN computed.left ELSE bottomEnd
             windowY == IF computed.top # 0 THEN computed.top ELSE rightEnd
             normalized == windowToNormalized(windowX, windowY)
             dimensions == IF fa_logoDimensions = Null
                             THEN FA_logoDimensions(fa_logoRect)
                             ELSE fa_logoDimensions
             halfWidth == dimensions.width \div 2
             halfHeight == dimensions.height \div 2
             hitLeft == normalized.x - halfWidth <= topEnd
             hitRight == normalized.x + halfWidth >= bottomEnd
             hitTop == normalized.y - halfHeight <= leftEnd
             hitBottom == normalized.y + halfHeight >= rightEnd
             hit == hitLeft \/ hitRight \/ hitTop \/ hitBottom
             angle == FA_reflect(fa_angle, hitLeft, hitRight, hitTop, hitBottom)
             movedX == normalized.x + Cos1000(angle)
             movedY == normalized.y + Sin1000(angle)
         IN /\ fa_logoDimensions' = dimensions
            /\ fa_angle' = angle
            /\ IF (hitLeft \/ hitRight) /\ (hitTop \/ hitBottom)
                 THEN FA_toggleGlow
                 ELSE UNCHANGED <<fa_glow, fa_glowTimers>>
            /\ IF hit
                 THEN /\ fa_currentX' = movedX
                      /\ fa_currentY' = movedY
                      /\ fa_cssVars' = FA_cssVars(angle, movedX, movedY)
                      /\ fa_progress' = 0
                 ELSE /\ fa_currentX' = normalized.x
                      /\ fa_currentY' = normalized.y
                      /\ fa_progress' = progress
                      /\ UNCHANGED fa_cssVars
            /\ fa_animationFrameId' = TRUE
            /\ fa_pre' = [stepped |-> TRUE, x |-> normalized.x,
                          y |-> normalized.y, angle |-> fa_angle,
                          halfWidth |-> halfWidth, halfHeight |-> halfHeight,
                          hitLeft |-> hitLeft, hitRight |-> hitRight,
                          hitTop |-> hitTop, hitBottom |-> hitBottom]
  /\ fa_frames' = fa_frames + 1
  /\ fa_op' = "mainLoop"
  /\ UNCHANGED <<fa_speed, fa_isAnimating, fa_innerWidth, fa_innerHeight,
                 fa_logoRect, fa_debounce, fa_loaded, fa_handled, fa_events>>
  /\ UNCHANGED fa_listening
  /\ UNCHANGED notFrameAnimator

\* initializeLogoDimensions(): the logo's width follows the window; left and
\* top of the style are overridden by the animation
initializeLogoDimensions == fa_logoRect' = LogoRectFor(fa_innerWidth * Px)

\* A resize event: the window has a new size; handleResize() updates the
\* speed and calls this.debouncedResize()
FA_resize ==
  /\ FA_open
  /\ fa_listening
  /\ fa_events < MaxInputs
  /\ \E size \in FrameViewports :
       /\ size # <<fa_innerWidth, fa_innerHeight>>
       /\ fa_innerWidth' = size[1]
       /\ fa_innerHeight' = size[2]
       /\ fa_speed' = calculateSpeedFromDuration(size[1], size[2])
  /\ fa_debounce' = debounced(fa_debounce, "object", EmptyArgs).d
  /\ fa_events' = fa_events + 1
  /\ fa_op' = "resize"
  /\ UNCHANGED <<fa_angle, fa_logoDimensions, fa_currentX, fa_currentY,
                 fa_isAnimating, fa_animationFrameId, fa_logoRect, fa_cssVars,
                 fa_progress, fa_glow, fa_glowTimers, fa_loaded, fa_handled,
                 fa_pre, fa_frames>>
  /\ UNCHANGED fa_listening
  /\ UNCHANGED notFrameAnimator

\* The timer of debouncedResize fires; when it invokes the resize handler:
\* initializeLogoDimensions()
FA_debounceTimer ==
  /\ FA_open
  /\ fa_debounce.timeout
  /\ LET r == debounceTimer(fa_debounce) IN
       /\ fa_debounce' = r.d
       /\ IF r.invoked
            THEN /\ initializeLogoDimensions
                 /\ fa_handled' = TRUE
                 /\ fa_op' = "resizeHandler"
            ELSE /\ fa_op' = "resizeDropped"
                 /\ UNCHANGED <<fa_logoRect, fa_handled>>
  /\ UNCHANGED <<fa_angle, fa_speed, fa_logoDimensions, fa_currentX,
                 fa_currentY, fa_isAnimating, fa_animationFrameId,
                 fa_innerWidth, fa_innerHeight, fa_cssVars, fa_progress,
                 fa_glow, fa_glowTimers, fa_loaded, fa_pre, fa_frames,
                 fa_events>>
  /\ UNCHANGED fa_listening
  /\ UNCHANGED notFrameAnimator

\* The load event of the logo image: initializeLogoDimensions()
FA_load ==
  /\ FA_open
  /\ fa_listening
  /\ ~fa_loaded
  /\ initializeLogoDimensions
  /\ fa_loaded' = TRUE
  /\ fa_op' = "load"
  /\ UNCHANGED <<fa_angle, fa_speed, fa_logoDimensions, fa_currentX,
                 fa_currentY, fa_isAnimating, fa_animationFrameId,
                 fa_innerWidth, fa_innerHeight, fa_cssVars, fa_progress,
                 fa_glow, fa_glowTimers, fa_debounce, fa_handled, fa_pre,
                 fa_frames, fa_events>>
  /\ UNCHANGED fa_listening
  /\ UNCHANGED notFrameAnimator

\* A keydown event of the key g: toggleGlow()
FA_keydown ==
  /\ FA_open
  /\ fa_events < MaxInputs
  /\ FA_toggleGlow
  /\ fa_events' = fa_events + 1
  /\ fa_op' = "keydown"
  /\ UNCHANGED <<fa_angle, fa_speed, fa_logoDimensions, fa_currentX,
                 fa_currentY, fa_isAnimating, fa_animationFrameId,
                 fa_innerWidth, fa_innerHeight, fa_logoRect, fa_cssVars,
                 fa_progress, fa_debounce, fa_loaded, fa_handled, fa_pre,
                 fa_frames>>
  /\ UNCHANGED fa_listening
  /\ UNCHANGED notFrameAnimator

\* The callback of a timer armed by toggleGlow
FA_glowTimer ==
  /\ fa_glowTimers > 0
  /\ fa_glow' = FALSE
  /\ fa_glowTimers' = fa_glowTimers - 1
  /\ fa_op' = "glowEnd"
  /\ UNCHANGED <<fa_angle, fa_speed, fa_logoDimensions, fa_currentX,
                 fa_currentY, fa_isAnimating, fa_animationFrameId,
                 fa_innerWidth, fa_innerHeight, fa_logoRect, fa_cssVars,
                 fa_progress, fa_debounce, fa_loaded, fa_handled, fa_pre,
                 fa_frames, fa_events>>
  /\ UNCHANGED fa_listening
  /\ UNCHANGED notFrameAnimator

\* cleanup(), called while the loop runs (a second cleanup() changes
\* nothing).  cancelAnimationFrame cancels the callback of the last request;
\* whether a callback that is due in the frame being run is still called is
\* left open.  The keydown listener stays.
FA_cleanup ==
  /\ FA_open
  /\ fa_isAnimating
  /\ fa_isAnimating' = FALSE
  /\ fa_animationFrameId' \in {FALSE, fa_animationFrameId}
  /\ fa_listening' = FALSE
  /\ fa_debounce' = clear(fa_debounce)
  /\ fa_op' = "cleanup"
  /\ UNCHANGED <<fa_angle, fa_speed, fa_logoDimensions, fa_currentX,
                 fa_currentY, fa_innerWidth, fa_innerHeight, fa_logoRect,
                 fa_cssVars, fa_progress, fa_glow, fa_glowTimers, fa_loaded,
                 fa_handled, fa_pre, fa_frames, fa_events>>
  /\ UNCHANGED notFrameAnimator

FA_NoStep == [stepped |-> FALSE, x |-> 0, y |-> 0, angle |-> 0,
              halfWidth |-> 0, halfHeight |-> 0,
              hitLeft |-> FALSE, hitRight |-> FALSE,
              hitTop |-> FALSE, hitBottom |-> FALSE]

\* The page after new LogoAnimator('logo', { angle, ... }) and initialize(),
\* the image loaded already or not
FA_initialize ==
  /\ fa_angle \in StartAngles
  /\ \E size \in FrameViewports :
       /\ fa_innerWidth = size[1]
       /\ fa_innerHeight = size[2]
  /\ fa_speed = calculateSpeedFromDuration(fa_innerWidth, fa_innerHeight)
  /\ fa_logoDimensions = Null
  /\ fa_currentX = 0
  /\ fa_currentY = 0
  /\ fa_logoRect = LogoRectFor(fa_innerWidth * Px)
  /\ fa_cssVars = FA_cssVars(fa_angle, 0, 0)
  /\ fa_progress = 0
  /\ fa_isAnimating = TRUE
  /\ fa_animationFrameId = TRUE
  /\ fa_glow = FALSE
  /\ fa_glowTimers = 0
  /\ fa_debounce = debounce(FALSE, TRUE)
  /\ fa_loaded \in BOOLEAN
  /\ fa_listening = TRUE
  /\ fa_handled = FALSE
  /\ fa_pre = FA_NoStep
  /\ fa_op = "initialize"
  /\ fa_frames = 0
  /\ fa_events = 0

\* The frame-driven page is not open
FA_Idle ==
  /\ fa_angle = 0
  /\ fa_speed = 0
  /\ fa_logoDimensions = Null
  /\ fa_currentX = 0
  /\ fa_currentY = 0
  /\ fa_isAnimating = FALSE
  /\ fa_animationFrameId = FALSE
  /\ fa_innerWidth = 0
  /\ fa_innerHeight = 0
  /\ fa_logoRect = Null
  /\ fa_cssVars = Null
  /\ fa_progress = 0
  /\ fa_glow = FALSE
  /\ fa_glowTimers = 0
  /\ fa_debounce = Null
  /\ fa_loaded = FALSE
  /\ fa_listening = FALSE
  /\ fa_handled = FALSE
  /\ fa_pre = FA_NoStep
  /\ fa_op = "init"
  /\ fa_frames = 0
  /\ fa_events = 0

----------------------------------------------------------------------------
(***************************************************************************)
(* Part VIII: LogoAnimator2, src/fps-meter.js lines 209-534                *)
(*                                                                         *)
(* The units are those of Part VII.  The targets of the CSS animation are  *)
(* one half-window times the cosine and the sine away from the start, and  *)
(* the angle is never normalised.  The style sheet of this variant is not  *)
(* among the sources: as in src/index.css, the class 'animate' is taken to *)
(* move the logo from the start to the target and to keep it there.        *)
(* this.speed and the timestamps of the frames are not modelled; cleanup() *)
(* is called by nothing and is not modelled.  initialize() starts          *)
(* window.fpsMeter, the meter of Part V.                                   *)
(***************************************************************************)

\* Windows (px): the logo is 200 px wide and 100 px high in both
Animator2Viewports == {<<1000, 250>>, <<600, 600>>}

\* maxX(), minX(), maxY(), minY(): the edges of the window in normalised
\* coordinates (mpx)
maxX == (l2_innerWidth * Px) \div 2
minX == -maxX
maxY == (l2_innerHeight * Px) \div 2
minY == -maxY

\* updateLogoDimensionsAndBounds(): the logoDimensions record it stores
L2_logoDimensions(logoRect) ==
  [width |-> logoRect.width,
   height |-> logoRect.height,
   leftBound |-> minX + logoRect.width \div 2,
   rightBound |-> maxX - logoRect.width \div 2,
   topBound |-> minY + logoRect.height \div 2,
   bottomBound |-> maxY - logoRect.height \div 2]

\* updateCSSVariables(): actualX(), actualY(), targetXX(), targetYY()
L2_cssVars(angle, currentX, currentY) ==
  LET actualX == currentX + maxX
      actualY == currentY + maxY
  IN [startX |-> actualX, startY |-> actualY,
      targetX |-> actualX + SDiv(maxX * Cos1000(angle), 1000),
      targetY |-> actualY + SDiv(maxY * Sin1000(angle), 1000)]

\* The computed left and top of the logo when the animation has made
\* progress / ProgressSteps of its way
L2_computed(progress) ==
  [left |-> l2_cssVars.startX
              + ((l2_cssVars.targetX - l2_cssVars.startX) * progress) \div ProgressSteps,
   top |-> l2_cssVars.startY
              + ((l2_cssVars.targetY - l2_cssVars.startY) * progress) \div ProgressSteps]

\* The piecewise formula of mainLoop for a hit on the left or the right wall
L2_horizontal(angle) ==
  IF angle < 180 THEN 180 - angle
  ELSE IF angle < 270 THEN angle - 180
  ELSE 270 - angle

\* The angle after the handling of the wall hits in mainLoop
L2_reflect(angle, hitLeft, hitRight, hitTop, hitBottom) ==
  LET a1 == IF hitLeft \/ hitRight THEN L2_horizontal(angle) ELSE angle
  IN IF hitTop \/ hitBottom THEN -a1 ELSE a1

\* toggleGlow(duration)
L2_toggleGlow ==
  IF l2_glow
    THEN UNCHANGED <<l2_glow, l2_glowTimers>>
    ELSE /\ l2_glow' = TRUE
         /\ l2_glowTimers' = l2_glowTimers + 1

\* The page is open: its LogoAnimator2 is constructed
L2_open == l2_debounce # Null

\* mainLoop(timestamp), the animation-frame callback
L2_mainLoop ==
  /\ l2_animationFrameId
  /\ l2_frames < MaxLoopFrames
  /\ IF ~l2_isAnimating
       THEN /\ l2_animationFrameId' = FALSE
            /\ UNCHANGED <<l2_angle, l2_velocityX, l2_logoDimensions,
                           l2_currentX, l2_currentY, l2_cssVars, l2_progress,
                           l2_glow, l2_glowTimers, l2_pre>>
       ELSE \E progress \in l2_progress..ProgressSteps :
         LET computed == L2_computed(progress)
             x == computed.left - maxX
             y == computed.top - maxY
             currentX == IF x # 0 THEN x ELSE l2_currentX
             currentY == IF y # 0 THEN y ELSE l2_currentY
             dimensions == IF l2_logoDimensions = Null
                             THEN L2_logoDimensions(l2_logoRect)
                             ELSE l2_logoDimensions
             hitLeft == currentX <= dimensions.leftBound
             hitRight == currentX >= dimensions.rightBound
             hitTop == currentY <= dimensions.topBound
             hitBottom == currentY >= dimensions.bottomBound
             hit == hitLeft \/ hitRight \/ hitTop \/ hitBottom
             angle == L2_reflect(l2_angle, hitLeft, hitRight, hitTop, hitBottom)
         IN /\ l2_currentX' = currentX
            /\ l2_currentY' = currentY
            /\ l2_logoDimensions' = dimensions
            /\ l2_angle' = angle
            /\ l2_velocityX' = IF hitLeft \/ hitRight THEN "NaN" ELSE l2_velocityX
            /\ IF hit
                 THEN /\ l2_cssVars' = L2_cssVars(angle, currentX, currentY)
                      /\ l2_progress' = 0
                 ELSE /\ l2_progress' = progress
                      /\ UNCHANGED l2_cssVars
            /\ IF (hitLeft \/ hitRight) /\ (hitTop \/ hitBottom)
                 THEN L2_toggleGlow
                 ELSE UNCHANGED <<l2_glow, l2_glowTimers>>
            /\ l2_animationFrameId' = TRUE
            /\ l2_pre' = [stepped |-> TRUE, angle |-> l2_angle,
                          hitLeft |-> hitLeft, hitRight |-> hitRight,
                          hitTop |-> hitTop, hitBottom |-> hitBottom]
  /\ l2_frames' = l2_frames + 1
  /\ l2_op' = "mainLoop"
  /\ UNCHANGED <<l2_isAnimating, l2_innerWidth, l2_innerHeight, l2_logoRect,
                 l2_debounce, l2_loaded, l2_events>>
  /\ UNCHANGED notLogoAnimator2

\* A resize event: the window has a new size; handleResize() calls
\* this.debouncedResize()
L2_resize ==
  /\ L2_open
  /\ l2_events < MaxInputs
  /\ \E size \in Animator2Viewports :
       /\ size # <<l2_innerWidth, l2_innerHeight>>
       /\ l2_innerWidth' = size[1]
       /\ l2_innerHeight' = size[2]
  /\ l2_debounce' = debounced(l2_debounce, "object", EmptyArgs).d
  /\ l2_events' = l2_events + 1
  /\ l2_op' = "resize"
  /\ UNCHANGED <<l2_angle, l2_velocityX, l2_logoDimensions, l2_currentX,
                 l2_currentY, l2_isAnimating, l2_animationFrameId, l2_logoRect,
                 l2_cssVars, l2_progress, l2_glow, l2_glowTimers, l2_loaded,
                 l2_pre, l2_frames>>
  /\ UNCHANGED notLogoAnimator2

\* The timer of debouncedResize fires; when it invokes the resize handler:
\* initializeLogoDimensions()
L2_debounceTimer ==
  /\ L2_open
  /\ l2_debounce.timeout
  /\ LET r == debounceTimer(l2_debounce) IN
       /\ l2_debounce' = r.d
       /\ IF r.invoked
            THEN /\ l2_logoRect' = LogoRectFor(l2_innerWidth * Px)
                 /\ l2_op' = "resizeHandler"
            ELSE /\ l2_op' = "resizeDropped"
                 /\ UNCHANGED l2_logoRect
  /\ UNCHANGED <<l2_angle, l2_velocityX, l2_logoDimensions, l2_currentX,
                 l2_currentY, l2_isAnimating, l2_animationFrameId,
                 l2_innerWidth, l2_innerHeight, l2_cssVars, l2_progress,
                 l2_glow, l2_glowTimers, l2_loaded, l2_pre, l2_frames,
                 l2_events>>
  /\ UNCHANGED notLogoAnimator2

\* The load event of the logo image: initializeLogoDimensions()
L2_load ==
  /\ L2_open
  /\ ~l2_loaded
  /\ l2_logoRect' = LogoRectFor(l2_innerWidth * Px)
  /\ l2_loaded' = TRUE
  /\ l2_op' = "load"
  /\ UNCHANGED <<l2_angle, l2_velocityX, l2_logoDimensions, l2_currentX,
                 l2_currentY, l2_isAnimating, l2_animationFrameId,
                 l2_innerWidth, l2_innerHeight, l2_cssVars, l2_progress,
                 l2_glow, l2_glowTimers, l2_debounce, l2_pre, l2_frames,
                 l2_events>>
  /\ UNCHANGED notLogoAnimator2

\* A keydown event of the key g: toggleGlow()
L2_keydown ==
  /\ L2_open
  /\ l2_events < MaxInputs
  /\ L2_toggleGlow
  /\ l2_events' = l2_events + 1
  /\ l2_op' = "keydown"
  /\ UNCHANGED <<l2_angle, l2_velocityX, l2_logoDimensions, l2_currentX,
                 l2_currentY, l2_isAnimating, l2_animationFrameId,
                 l2_innerWidth, l2_innerHeight, l2_logoRect, l2_cssVars,
                 l2_progress, l2_debounce, l2_loaded, l2_pre, l2_frames>>
  /\ UNCHANGED notLogoAnimator2

\* The callback of a timer armed by toggleGlow
L2_glowTimer ==
  /\ l2_glowTimers > 0
  /\ l2_glow' = FALSE
  /\ l2_glowTimers' = l2_glowTimers - 1
  /\ l2_op' = "glowEnd"
  /\ UNCHANGED <<l2_angle, l2_velocityX, l2_logoDimensions, l2_currentX,
                 l2_currentY, l2_isAnimating, l2_animationFrameId,
                 l2_innerWidth, l2_innerHeight, l2_logoRect, l2_cssVars,
                 l2_progress, l2_debounce, l2_loaded, l2_pre, l2_frames,
                 l2_events>>
  /\ UNCHANGED notLogoAnimator2

L2_NoStep == [stepped |-> FALSE, angle |-> 0,
              hitLeft |-> FALSE, hitRight |-> FALSE,
              hitTop |-> FALSE, hitBottom |-> FALSE]

\* The page after new LogoAnimator2(logoId) with the default options
\* (angle = 40) and initialize(), the image loaded already or not
L2_initialize ==
  /\ l2_angle = 40
  /\ l2_velocityX = Undefined
  /\ \E size \in Animator2Viewports :
       /\ l2_innerWidth = size[1]
       /\ l2_innerHeight = size[2]
  /\ l2_logoDimensions = Null
  /\ l2_currentX = 0
  /\ l2_currentY = 0
  /\ l2_logoRect = LogoRectFor(l2_innerWidth * Px)
  /\ l2_cssVars = L2_cssVars(l2_angle, 0, 0)
  /\ l2_progress = 0
  /\ l2_isAnimating = TRUE
  /\ l2_animationFrameId = TRUE
  /\ l2_glow = FALSE
  /\ l2_glowTimers = 0
  /\ l2_debounce = debounce(FALSE, TRUE)
  /\ l2_loaded \in BOOLEAN
  /\ l2_pre = L2_NoStep
  /\ l2_op = "initialize"
  /\ l2_frames = 0
  /\ l2_events = 0

\* window.fpsMeter after the start() of initialize()
L2_fpsMeterStarted ==
  /\ fps_ui = TRUE
  /\ fps_isRunning = TRUE
  /\ fps_fps = 0
  /\ fps_element = 1
  /\ fps_attached = {1}
  /\ fps_pending = measure(0)
  /\ fps_op = "start"
  /\ fps_calls = 1

\* The page of LogoAnimator2 is not open
L2_Idle ==
  /\ l2_angle = 0
  /\ l2_velocityX = Undefined
  /\ l2_logoDimensions = Null
  /\ l2_currentX = 0
  /\ l2_currentY = 0
  /\ l2_isAnimating = FALSE
  /\ l2_animationFrameId = FALSE
  /\ l2_innerWidth = 0
  /\ l2_innerHeight = 0
  /\ l2_logoRect = Null
  /\ l2_cssVars = Null
  /\ l2_progress = 0
  /\ l2_glow = FALSE
  /\ l2_glowTimers = 0
  /\ l2_debounce = Null
  /\ l2_loaded = FALSE
  /\ l2_pre = L2_NoStep
  /\ l2_op = "init"
  /\ l2_frames = 0
  /\ l2_events = 0

----------------------------------------------------------------------------
(***************************************************************************)
(* Specifications                                                          *)
(***************************************************************************)

\* State after the DOMContentLoaded handler has run: the logo is constructed,
\* resizeCanvas() has centred it, the image has not loaded yet
Init ==
  /\ now = StartTime
  /\ devicePixelRatio \in DevicePixelRatios
  /\ \E size \in WindowSizes :
       /\ canvas_width = size[1] * devicePixelRatio
       /\ canvas_height = size[2] * devicePixelRatio
       /\ logo_x = (size[1] * Px) \div 2
       /\ logo_y = (size[2] * Px) \div 2
  /\ logo_width = 0
  /\ logo_height = 0
  /\ logo_naturalWidth = 0
  /\ logo_naturalHeight = 0
  /\ logo_scale = ScaleOne
  /\ logo_isDragging = FALSE
  /\ logo_dragOffsetX = 0
  /\ logo_dragOffsetY = 0
  /\ logo_isGlowing = FALSE
  /\ logo_glowStartTime = 0
  /\ logo_glowDuration = 0
  /\ logo_glowIntensity = 0
  /\ velocityX = velocityX0
  /\ velocityY = velocityY0
  /\ lastTimestamp = 0
  /\ animationFrameId = FALSE
  /\ frameCount = 0
  /\ lastFpsUpdateTime = 0
  /\ currentFps = 0
  /\ op = "init"
  /\ pre = NoStep
  /\ ev = NoEvents
  /\ dragDelta = <<0, 0>>
  /\ rel = NoRelease
  /\ frames = 0
  /\ events = 0
  /\ LA_Idle
  /\ Seg_Idle
  /\ Db_Idle
  /\ Fps_Idle
  /\ FA_Idle
  /\ L2_Idle

Next ==
  \/ animateLogo
  \/ imageLoad
  \/ resizeCanvas
  \/ mousedown
  \/ mousemove
  \/ mouseup
  \/ wheel
  \/ glowButtonClick

Spec == Init /\ [][Next]_vars

----------------------------------------------------------------------------
(***************************************************************************)
(* SpecStep: the two step functions on their own.  The motion state, the   *)
(* bounds and the glow flag are drawn from bounded sets that put the logo  *)
(* inside, on and far outside the bounds, moving in every direction; the   *)
(* step is then applied with every frame gap.                              *)
(***************************************************************************)

\* Canvas sizes (px) of the step inputs; with the logo at scale 0.2
\* (half extents 20 x 10 px) the bounds are [20, 100] x [10, 100], the
\* single point (20, 10), and an empty region
StepCanvasSizes == {<<120, 110>>, <<40, 20>>, <<30, 15>>}
StepXs == {-1000, 19, 20, 21, 50, 95, 98, 100, 101, 5000}   \* px
StepYs == {-1000, 9, 10, 11, 50, 98, 100, 101, 5000}        \* px
StepVelocitiesX == {-velocityX0, -10, 0, 10, velocityX0}    \* px per second
StepVelocitiesY == {-velocityY0, -10, 0, 10, velocityY0}

InitStepCanvas ==
  /\ now = StartTime
  /\ devicePixelRatio = 1
  /\ \E size \in StepCanvasSizes :
       /\ canvas_width = size[1]
       /\ canvas_height = size[2]
  /\ logo_x \in {px * Px : px \in StepXs}
  /\ logo_y \in {px * Px : px \in StepYs}
  /\ logo_width = ImageNaturalSize.w
  /\ logo_height = ImageNaturalSize.h
  /\ logo_naturalWidth = ImageNaturalSize.w
  /\ logo_naturalHeight = ImageNaturalSize.h
  /\ logo_scale = 2 * (ScaleOne \div 10)
  /\ logo_isDragging = FALSE
  /\ logo_dragOffsetX = 0
  /\ logo_dragOffsetY = 0
  /\ logo_isGlowing \in BOOLEAN
  /\ logo_glowStartTime = (IF logo_isGlowing THEN StartTime ELSE 0)
  /\ logo_glowDuration = (IF logo_isGlowing THEN cornerGlowDuration ELSE 0)
  /\ logo_glowIntensity = 0
  /\ velocityX \in StepVelocitiesX
  /\ velocityY \in StepVelocitiesY
  /\ lastTimestamp = StartTime
  /\ animationFrameId = TRUE
  /\ frameCount = 0
  /\ lastFpsUpdateTime = StartTime
  /\ currentFps = 0

\* Viewports (px) of the step inputs; the logo box is 200 x 100 px, so the
\* bounds are [100, 900] x [50, 550], the single point (100, 50), and empty
StepViewports == {<<1000, 600>>, <<200, 100>>, <<150, 80>>}
StepLeftsLA == {-5000, 99, 100, 101, 104, 500, 896, 899, 900, 901, 9000}   \* px
StepTopsLA == {-5000, 49, 50, 51, 54, 300, 546, 549, 550, 551, 9000}       \* px
StepVelocitiesLA == {-229800, -192840, -600, 0, 600, 192840, 229800}

InitStepLogoAnimator ==
  /\ la_velocityX \in StepVelocitiesLA
  /\ la_velocityY \in StepVelocitiesLA
  /\ \E size \in StepViewports :
       /\ la_innerWidth = size[1]
       /\ la_innerHeight = size[2]
  /\ la_logoRect = [width |-> 200 * Px, height |-> 100 * Px]
  /\ la_viewportDimensions = LA_viewport
  /\ la_logoDimensions = LA_logoDimensions(LA_viewport, la_logoRect)
  /\ la_left \in {px * Px : px \in StepLeftsLA}
  /\ la_top \in {px * Px : px \in StepTopsLA}
  /\ la_currentX = la_left
  /\ la_currentY = la_top
  /\ la_animationInProgress = FALSE
  /\ la_logoLoadTimeout = FALSE
  /\ la_animationSegmentTimeout = FALSE
  /\ la_nextAnimationTimeout = TRUE
  /\ la_glow \in BOOLEAN
  /\ la_glowTimeout = la_glow
  /\ la_segmentTarget = <<la_left, la_top>>
  /\ la_restartFrame = FALSE
  /\ la_cssVars = [startX |-> la_left, startY |-> la_top,
                   targetX |-> la_left, targetY |-> la_top]
  /\ la_pre = LA_NoStep
  /\ la_ev = LA_NoEvents
  /\ LA_NoInputs

\* Viewports (px) of the segment inputs; the logo box is 200 x 100 px, so the
\* bounds are [100, 900] x [50, 730], [100, 900] x [50, 550], the single
\* point (100, 50), and empty
StepViewportsSeg == {<<1000, 780>>, <<1000, 600>>, <<200, 100>>, <<150, 80>>}
StepLeftsSeg == {75, 100, 104, 500, 747, 896, 900}        \* px
StepTopsSeg == {40, 50, 54, 300, 390, 421, 546, 550, 730} \* px

\* The logo is at the centre of the viewport, where the page puts it before
\* the first segment, or within the bounds where an earlier segment ended,
\* moving away from every bound it is on
InitStepSegment ==
  /\ seg_velocityX \in {-seg_velocityX0, seg_velocityX0}
  /\ seg_velocityY \in {-seg_velocityY0, seg_velocityY0}
  /\ \E size \in StepViewportsSeg :
       /\ seg_innerWidth = size[1]
       /\ seg_innerHeight = size[2]
  /\ seg_logoRect = [width |-> 200 * Px, height |-> 100 * Px]
  /\ seg_left \in {px * Px : px \in StepLeftsSeg}
  /\ seg_top \in {px * Px : px \in StepTopsSeg}
  /\ \/ /\ 2 * seg_left = seg_innerWidth * Px
        /\ 2 * seg_top = seg_innerHeight * Px
     \/ /\ seg_logoRect.width \div 2 <= seg_left
        /\ seg_left <= seg_innerWidth * Px - seg_logoRect.width \div 2
        /\ seg_logoRect.height \div 2 <= seg_top
        /\ seg_top <= seg_innerHeight * Px - seg_logoRect.height \div 2
        /\ seg_left = seg_logoRect.width \div 2 => seg_velocityX > 0
        /\ seg_left = seg_innerWidth * Px - seg_logoRect.width \div 2 =>
             seg_velocityX < 0
        /\ seg_top = seg_logoRect.height \div 2 => seg_velocityY > 0
        /\ seg_top = seg_innerHeight * Px - seg_logoRect.height \div 2 =>
             seg_velocityY < 0
  /\ seg_currentX = seg_left
  /\ seg_currentY = seg_top
  /\ seg_animationInProgress = FALSE
  /\ seg_logoLoadTimeout = FALSE
  /\ seg_animationSegmentTimeout = FALSE
  /\ seg_nextAnimationTimeout = TRUE
  /\ seg_resizeTimeout = FALSE
  /\ seg_glow \in BOOLEAN
  /\ seg_glowTimeout = seg_glow
  /\ seg_segmentTarget = <<seg_left, seg_top>>
  /\ seg_restartFrame = FALSE
  /\ seg_cssVars = [startX |-> seg_left, startY |-> seg_top,
                    targetX |-> seg_left, targetY |-> seg_top]
  /\ seg_pre = Seg_NoStep
  /\ seg_ev = Seg_NoEvents
  /\ Seg_NoInputs

\* The canvas page is not open
Canvas_Idle ==
  /\ now = StartTime
  /\ devicePixelRatio = 1
  /\ canvas_width = 0
  /\ canvas_height = 0
  /\ logo_x = 0
  /\ logo_y = 0
  /\ logo_width = 0
  /\ logo_height = 0
  /\ logo_naturalWidth = 0
  /\ logo_naturalHeight = 0
  /\ logo_scale = ScaleOne
  /\ logo_isDragging = FALSE
  /\ logo_dragOffsetX = 0
  /\ logo_dragOffsetY = 0
  /\ logo_isGlowing = FALSE
  /\ logo_glowStartTime = 0
  /\ logo_glowDuration = 0
  /\ logo_glowIntensity = 0
  /\ velocityX = velocityX0
  /\ velocityY = velocityY0
  /\ lastTimestamp = 0
  /\ animationFrameId = FALSE
  /\ frameCount = 0
  /\ lastFpsUpdateTime = 0
  /\ currentFps = 0

InitStep ==
  /\ op = "init"
  /\ pre = NoStep
  /\ ev = NoEvents
  /\ dragDelta = <<0, 0>>
  /\ rel = NoRelease
  /\ frames = 0
  /\ events = 0
  /\ \/ InitStepCanvas /\ LA_Idle /\ Seg_Idle
     \/ InitStepLogoAnimator /\ Canvas_Idle /\ Seg_Idle
     \/ InitStepSegment /\ Canvas_Idle /\ LA_Idle
  /\ Db_Idle
  /\ Fps_Idle
  /\ FA_Idle
  /\ L2_Idle

\* The nextAnimationTimeout callback: animationInProgress = false, then
\* calculateNextPosition().  The logo is where the segment put it.
LA_step ==
  /\ la_nextAnimationTimeout
  /\ frames < MaxFrames
  /\ LA_calculateNextPosition
  /\ frames' = frames + 1
  /\ UNCHANGED LA_inputs
  /\ UNCHANGED notLogoAnimator

\* The nextAnimationTimeout callback of the segment-based page:
\* animationInProgress = false, then calculateNextPosition()
Seg_step ==
  /\ seg_nextAnimationTimeout
  /\ frames < MaxFrames
  /\ Seg_calculateNextPosition
  /\ frames' = frames + 1
  /\ UNCHANGED Seg_inputs
  /\ UNCHANGED notSegment

NextStep ==
  \/ animateLogo
  \/ LA_step
  \/ Seg_step

SpecStep == InitStep /\ [][NextStep]_vars

----------------------------------------------------------------------------
(***************************************************************************)
(* SpecDebounce: one debounced function, called, cancelled and left alone  *)
(* at every time up to MaxTime, with every receiver.                       *)
(***************************************************************************)

\* No handler of the canvas page has run
Hist_Idle ==
  /\ op = "init"
  /\ pre = NoStep
  /\ ev = NoEvents
  /\ dragDelta = <<0, 0>>
  /\ rel = NoRelease
  /\ frames = 0
  /\ events = 0

\* options of debounce: the defaults, and leading: true
DebounceOptions ==
  {[leading |-> FALSE, trailing |-> TRUE], [leading |-> TRUE, trailing |-> TRUE]}

InitDebounce ==
  /\ \E o \in DebounceOptions : db = debounce(o.leading, o.trailing)
  /\ db_wait \in Waits
  /\ db_now = 0
  /\ db_deadline = 0
  /\ db_op = "init"
  /\ db_calls = 0
  /\ db_lastCallTime = 0
  /\ db_lastCallArgs = Undefined
  /\ db_burstInvoked = 0
  /\ db_invokedArgs = Undefined
  /\ db_invokedAt = 0
  /\ db_burstCalls = 0
  /\ db_lastCallThis = Undefined
  /\ db_cancelState = "none"
  /\ Hist_Idle
  /\ Canvas_Idle
  /\ LA_Idle
  /\ Seg_Idle
  /\ Fps_Idle
  /\ FA_Idle
  /\ L2_Idle

NextDebounce ==
  \/ db_call
  \/ db_timer
  \/ db_cancel
  \/ db_tick

SpecDebounce == InitDebounce /\ [][NextDebounce]_vars

----------------------------------------------------------------------------
(***************************************************************************)
(* SpecFps: one FPSMeter, with or without its display, under any sequence  *)
(* of calls of its methods interleaved with animation-frame callbacks.     *)
(***************************************************************************)

InitFps ==
  /\ \E ui \in BOOLEAN : FPSMeter(ui)
  /\ Hist_Idle
  /\ Canvas_Idle
  /\ LA_Idle
  /\ Seg_Idle
  /\ Db_Idle
  /\ FA_Idle
  /\ L2_Idle

NextFps ==
  \/ fps_start
  \/ fps_pause
  \/ fps_resume
  \/ fps_toggle
  \/ fps_stop
  \/ fps_frame

SpecFps == InitFps /\ [][NextFps]_vars

----------------------------------------------------------------------------
(***************************************************************************)
(* SpecTimers: one of the two timer-driven pages, from the end of its      *)
(* initialisation, under any interleaving of its timer and animation-frame *)
(* callbacks with resize, load and key events.  SpecTimersFair adds that   *)
(* an armed timer and a pending animation frame eventually run.            *)
(***************************************************************************)

InitTimers ==
  /\ Hist_Idle
  /\ Canvas_Idle
  /\ Db_Idle
  /\ Fps_Idle
  /\ FA_Idle
  /\ L2_Idle
  /\ \/ LA_initialize /\ Seg_Idle
     \/ Seg_initialize /\ LA_Idle

LA_timers ==
  \/ LA_animationFrame
  \/ LA_segmentTimer
  \/ LA_nextAnimationTimer
  \/ LA_logoLoadTimer
  \/ LA_debounceTimer
  \/ LA_glowTimer

Seg_timers ==
  \/ Seg_animationFrame
  \/ Seg_segmentTimer
  \/ Seg_nextAnimationTimer
  \/ Seg_logoLoadTimer
  \/ Seg_resizeTimer
  \/ Seg_glowTimer

NextTimers ==
  \/ LA_timers
  \/ LA_resize
  \/ LA_load
  \/ LA_keydown
  \/ Seg_timers
  \/ Seg_resize
  \/ Seg_load
  \/ Seg_keydown

SpecTimers == InitTimers /\ [][NextTimers]_vars

SpecTimersFair ==
  /\ SpecTimers
  /\ WF_vars(LA_animationFrame)
  /\ WF_vars(LA_segmentTimer)
  /\ WF_vars(LA_nextAnimationTimer)
  /\ WF_vars(LA_logoLoadTimer)
  /\ WF_vars(LA_debounceTimer)
  /\ WF_vars(LA_glowTimer)
  /\ WF_vars(Seg_animationFrame)
  /\ WF_vars(Seg_segmentTimer)
  /\ WF_vars(Seg_nextAnimationTimer)
  /\ WF_vars(Seg_logoLoadTimer)
  /\ WF_vars(Seg_resizeTimer)
  /\ WF_vars(Seg_glowTimer)

----------------------------------------------------------------------------
(***************************************************************************)
(* SpecFrames: the frame-driven LogoAnimator page from the end of          *)
(* initialize(), its frames interleaved with resize, load and key events.  *)
(***************************************************************************)

InitFrames ==
  /\ Hist_Idle
  /\ Canvas_Idle
  /\ LA_Idle
  /\ Seg_Idle
  /\ Db_Idle
  /\ Fps_Idle
  /\ L2_Idle
  /\ FA_initialize

NextFrames ==
  \/ FA_mainLoop
  \/ FA_resize
  \/ FA_debounceTimer
  \/ FA_load
  \/ FA_keydown
  \/ FA_glowTimer
  \/ FA_cleanup

SpecFrames == InitFrames /\ [][NextFrames]_vars

----------------------------------------------------------------------------
(***************************************************************************)
(* SpecAnimator2: the page of LogoAnimator2 from the end of initialize(),  *)
(* its frames interleaved with resize, load and key events and with the    *)
(* frames of the FPS meter it started.                                     *)
(***************************************************************************)

InitAnimator2 ==
  /\ Hist_Idle
  /\ Canvas_Idle
  /\ LA_Idle
  /\ Seg_Idle
  /\ Db_Idle
  /\ FA_Idle
  /\ L2_fpsMeterStarted
  /\ L2_initialize

NextAnimator2 ==
  \/ L2_mainLoop
  \/ L2_resize
  \/ L2_debounceTimer
  \/ L2_load
  \/ L2_keydown
  \/ L2_glowTimer
  \/ fps_frame

SpecAnimator2 == InitAnimator2 /\ [][NextAnimator2]_vars

----------------------------------------------------------------------------
(***************************************************************************)
(* Properties of the step functions (checked under SpecStep)               *)
(***************************************************************************)

\* The last handler was an animateLogo frame that stepped the logo
CanvasStepped == op = "animateLogo" /\ pre.stepped
\* The candidate position of that step, from the state it started in
candX == pre.x + pre.vx * pre.dt
candY == pre.y + pre.vy * pre.dt
\* The candidate reached or passed a bound of the axis
ReachedX == candX <= pre.left \/ candX >= pre.right
ReachedY == candY <= pre.top \/ candY >= pre.bottom
\* ... while the logo was moving toward the edge the code tests: the low
\* edge, or the high edge when the candidate is beyond the low bound
TowardX == \/ candX <= pre.left /\ pre.vx < 0
           \/ candX > pre.left /\ candX >= pre.right /\ pre.vx > 0
TowardY == \/ candY <= pre.top /\ pre.vy < 0
           \/ candY > pre.top /\ candY >= pre.bottom /\ pre.vy > 0
PreInBounds == /\ pre.left <= pre.x /\ pre.x <= pre.right
               /\ pre.top <= pre.y /\ pre.y <= pre.bottom

\* The same for the last calculateNextPosition of the LogoAnimator
la_candX == la_pre.x + la_pre.vx \div 60
la_candY == la_pre.y + la_pre.vy \div 60
la_ReachedX == la_candX <= la_pre.left \/ la_candX >= la_pre.right
la_ReachedY == la_candY <= la_pre.top \/ la_candY >= la_pre.bottom

\* C1: after a step taken while the logo is not dragged and the bounding
\* region is not empty, the position lies within the bounds, whatever dt and
\* whatever the starting position (animateLogo and calculateNextPosition).
C1_PositionWithinBounds ==
  /\ (CanvasStepped /\ pre.left <= pre.right /\ pre.top <= pre.bottom) =>
       /\ pre.left <= logo_x /\ logo_x <= pre.right
       /\ pre.top <= logo_y /\ logo_y <= pre.bottom
  /\ (la_pre.stepped /\ la_pre.left <= la_pre.right /\ la_pre.top <= la_pre.bottom) =>
       /\ la_pre.left <= la_currentX /\ la_currentX <= la_pre.right
       /\ la_pre.top <= la_currentY /\ la_currentY <= la_pre.bottom

\* C1 witness: a step from far outside the region (4900 px right of the right
\* bound, 1010 px above the top bound) that ended on the bounds.
C1_Witness ==
  /\ CanvasStepped
  /\ pre.left < pre.right /\ pre.top < pre.bottom
  /\ pre.x = 5000 * Px /\ pre.y = -1000 * Px
  /\ pre.dt = 1000 /\ pre.vx > 0 /\ pre.vy < 0
  /\ logo_x = pre.right /\ logo_y = pre.top

C3_CornerGlowAsClaimed ==
  /\ CanvasStepped => (ev.glowStarted <=> (TowardX /\ TowardY))
  /\ la_pre.stepped => (la_ev.toggleGlow <=> (la_ReachedX /\ la_ReachedY))

\* C3 amended: in animateLogo the glow starts in a step exactly when both
\* edges are hit (each reached while moving toward it) and the logo is not
\* glowing already; a started glow is glowing from this frame's timestamp.
\* For calculateNextPosition the claim stands.
C3_CornerGlow ==
  /\ CanvasStepped =>
       /\ ev.glowStarted <=> (TowardX /\ TowardY /\ ~pre.isGlowing)
       /\ ev.glowStarted => (logo_isGlowing /\ logo_glowStartTime = now)
       /\ ev.hitHorizontal <=> TowardX
       /\ ev.hitVertical <=> TowardY
  /\ la_pre.stepped => (la_ev.toggleGlow <=> (la_ReachedX /\ la_ReachedY))

\* C3 witness: a corner hit of a logo that was not glowing started the glow.
C3_Witness ==
  /\ CanvasStepped
  /\ TowardX /\ TowardY /\ ~pre.isGlowing
  /\ ev.glowStarted /\ logo_isGlowing

NotLeaving ==
  /\ ~(pre.x = pre.left /\ pre.vx < 0)
  /\ ~(pre.x = pre.right /\ pre.vx > 0)
  /\ ~(pre.y = pre.top /\ pre.vy < 0)
  /\ ~(pre.y = pre.bottom /\ pre.vy > 0)

C5_Example ==
  /\ CanvasStepped
  /\ pre.x = 95 * Px /\ pre.y = 50 * Px
  /\ pre.vx = 10 /\ pre.vy = 0
  /\ pre.dt = 1000
  /\ pre.right = 100 * Px
  /\ pre.left < 95 * Px /\ pre.top < 50 * Px /\ 50 * Px < pre.bottom

\* C5: the single-edge example ends at (100, 50) with velocity (-10, 0), a
\* hit on the right edge only and no corner hit.
C5_SingleEdgeExample ==
  C5_Example =>
    /\ logo_x = 100 * Px /\ logo_y = 50 * Px
    /\ velocityX = -10 /\ velocityY = 0
    /\ ev.hitHorizontal /\ ~ev.hitVertical /\ ~ev.glowStarted

\* C5 witness: the example was run.
C5_Witness == C5_Example /\ logo_x = pre.right

\* The state of the corner example: (98, 98), velocity (+10, +10), right and
\* bottom bound 100, dt = 1 s
C6_Example ==
  /\ CanvasStepped
  /\ pre.x = 98 * Px /\ pre.y = 98 * Px
  /\ pre.vx = 10 /\ pre.vy = 10
  /\ pre.dt = 1000
  /\ pre.right = 100 * Px /\ pre.bottom = 100 * Px
  /\ pre.left < 98 * Px /\ pre.top < 98 * Px

\* C6 as claimed: the corner example ends at (100, 100) with velocity
\* (-10, -10) and reports the right hit, the bottom hit and the corner hit
\* (the glow) together.
C6_CornerExampleAsClaimed ==
  C6_Example =>
    /\ logo_x = 100 * Px /\ logo_y = 100 * Px
    /\ velocityX = -10 /\ velocityY = -10
    /\ ev.hitHorizontal /\ ev.hitVertical /\ ev.glowStarted

\* C6 amended: as claimed, the glow being started when the logo was not
\* glowing already when the step began.
C6_CornerExample ==
  C6_Example =>
    /\ logo_x = 100 * Px /\ logo_y = 100 * Px
    /\ velocityX = -10 /\ velocityY = -10
    /\ ev.hitHorizontal /\ ev.hitVertical
    /\ ~pre.isGlowing => (ev.glowStarted /\ logo_isGlowing)

\* C6 witness: the example was run on a logo that was not glowing, and the
\* glow started.
C6_Witness == C6_Example /\ ~pre.isGlowing /\ ev.glowStarted /\ logo_isGlowing

\* The last segment reversed the horizontal / vertical velocity
seg_FlippedX == seg_velocityX = -seg_pre.vx
seg_FlippedY == seg_velocityY = -seg_pre.vy
\* The target of the segment lies on a vertical wall's / horizontal wall's bound
seg_TargetOnXBound == seg_currentX \in {seg_pre.left, seg_pre.right}
seg_TargetOnYBound == seg_currentY \in {seg_pre.top, seg_pre.bottom}

\* C7: after calculateNextPosition of the segment-based page, both velocity
\* components are reversed only when the segment's target lies on both an x
\* bound and a y bound, and a component is reversed only when the target
\* lies on a bound of its axis.
C7_CornerOnlyFlip ==
  seg_pre.stepped =>
    /\ (seg_FlippedX /\ seg_FlippedY) => (seg_TargetOnXBound /\ seg_TargetOnYBound)
    /\ seg_FlippedX => seg_TargetOnXBound
    /\ seg_FlippedY => seg_TargetOnYBound

----------------------------------------------------------------------------
(***************************************************************************)
(* Properties of the canvas page (checked under Spec)                      *)
(***************************************************************************)

\* C8: |velocityX| and |velocityY| keep their initial values in every
\* reachable state of the canvas page.
C8_ElasticMotion ==
  /\ Abs(velocityX) = Abs(velocityX0)
  /\ Abs(velocityY) = Abs(velocityY0)

\* C8 witness: an edge was hit in a frame and a drag was released afterwards,
\* leaving the velocity reversed with respect to the initial one.
C8_Witness ==
  /\ op = "mouseup" /\ rel.ended
  /\ pre.stepped /\ ev.hitHorizontal /\ ev.hitVertical
  /\ velocityX = -velocityX0

PositionChanges == logo_x' # logo_x \/ logo_y' # logo_y

\* C9 as claimed: a frame that runs while the logo is dragged changes neither
\* position nor velocity, and while the logo is dragged its position changes
\* only through drag() (the mousemove handler).
C9_DragSuspendsAsClaimed ==
  [][/\ (logo_isDragging /\ op' = "animateLogo") =>
          UNCHANGED <<logo_x, logo_y, velocityX, velocityY>>
     /\ (logo_isDragging /\ PositionChanges) => op' = "mousemove"]_vars

\* C9 amended: a frame that runs while the logo is dragged changes neither
\* position nor velocity, and while the logo is dragged its position changes
\* only through drag() or through resizeCanvas(), which centres the logo.
C9_DragSuspends ==
  [][/\ (logo_isDragging /\ op' = "animateLogo") =>
          UNCHANGED <<logo_x, logo_y, velocityX, velocityY>>
     /\ (logo_isDragging /\ PositionChanges) => op' \in {"mousemove", "resize"}]_vars

\* C9 witness: a frame ran 16 ms or more after the previous one while the
\* logo was dragged, and the logo is where it was.
C9_Witness ==
  /\ op = "animateLogo" /\ logo_isDragging
  /\ pre.isDragging /\ ~pre.stepped /\ pre.dt > 0
  /\ logo_x = pre.x /\ logo_y = pre.y
  /\ velocityX = pre.vx /\ velocityY = pre.vy

\* The sign of a number
Sign(n) == IF n > 0 THEN 1 ELSE IF n < 0 THEN -1 ELSE 0

\* C10 as claimed: a mouseup that ends a drag sets the velocity from the
\* position delta of the drag (each component points the way the logo was
\* moved on its axis, when it was moved on it); another mouseup leaves the
\* velocity unchanged.
C10_ReleaseAsClaimed ==
  [][op' = "mouseup" =>
       IF logo_isDragging
         THEN /\ dragDelta[1] # 0 => Sign(velocityX') = Sign(dragDelta[1])
              /\ dragDelta[2] # 0 => Sign(velocityY') = Sign(dragDelta[2])
              /\ ~logo_isDragging'
         ELSE UNCHANGED <<velocityX, velocityY>>]_vars

\* C10 amended: a mouseup that ends a drag sets the velocity from the release
\* position: each component has the magnitude of the initial velocity and
\* points from the logo toward the centre of the canvas (positive when the
\* logo is left of / above the centre, negative otherwise), and stepping
\* resumes; another mouseup leaves the velocity unchanged.
C10_Release ==
  [][op' = "mouseup" =>
       IF logo_isDragging
         THEN /\ velocityX' = (IF 2 * logo_x < canvasWidth
                                 THEN Abs(velocityX0) ELSE -Abs(velocityX0))
              /\ velocityY' = (IF 2 * logo_y < canvasHeight
                                 THEN Abs(velocityY0) ELSE -Abs(velocityY0))
              /\ ~logo_isDragging'
         ELSE UNCHANGED <<velocityX, velocityY>>]_vars

\* C10 witness: a drag that moved the logo right and down, beyond the centre
\* of the canvas, was released and the velocity points left and up.
C10_Witness ==
  /\ op = "mouseup" /\ rel.ended /\ ~logo_isDragging
  /\ rel.dx > 0 /\ rel.dy > 0
  /\ velocityX < 0 /\ velocityY < 0

----------------------------------------------------------------------------
(***************************************************************************)
(* Properties of debounce (checked under SpecDebounce)                     *)
(***************************************************************************)

\* debounce was given the default options
DefaultOptions == ~db.leading /\ db.trailing

\* C16: with the default options, func is not invoked by a call, and when
\* the timer of a burst fires, which is wait ms after the burst's last call,
\* func has been invoked exactly once in the burst, at that time and with the
\* arguments of the last call.
C16_DebounceTiming ==
  DefaultOptions =>
    /\ db_op = "call" => db_burstInvoked = 0
    /\ db_op = "timer" =>
         /\ db_now >= db_lastCallTime + db_wait
         /\ db_burstInvoked = 1
         /\ db_invokedAt = db_now
         /\ db_invokedArgs = db_lastCallArgs

\* C17: with the default options, once wait ms have passed after a call
\* without another call or a cancel (the timer has fired), func has been
\* invoked exactly once for the burst, whatever the receivers of the calls.
C17_InvokedOncePerBurst ==
  (DefaultOptions /\ db_op = "timer") => db_burstInvoked = 1

\* debounce was given leading: true (and the default trailing: true)
LeadingOptions == db.leading /\ db.trailing

\* C21: with leading: true and no cancel(), the first call of a burst invokes
\* func at once with its arguments; when the timer of the burst fires, func
\* has been invoked once in a burst of one call, and twice in a longer burst,
\* the second time at that moment with the arguments of the last call.
C21_LeadingEdge ==
  (LeadingOptions /\ db_cancelState = "none") =>
    /\ (db_op = "call" /\ db_burstCalls = 1) =>
         /\ db_burstInvoked = 1
         /\ db_invokedAt = db_now
         /\ db_invokedArgs = db_lastCallArgs
    /\ (db_op = "timer" /\ db_burstCalls = 1) => db_burstInvoked = 1
    /\ (db_op = "timer" /\ db_burstCalls > 1) =>
         /\ db_burstInvoked = 2
         /\ db_invokedAt = db_now
         /\ db_invokedArgs = db_lastCallArgs

\* C22: between cancel() and the next call no timer callback runs, so the
\* pending invocation does not happen; and with leading: true the call that
\* follows cancel(), made on a receiver, invokes func at once with its
\* arguments, as the first call of a burst does.
C22_CancelStartsFreshBurst ==
  /\ db_cancelState = "cancelled" => db_op \in {"cancel", "tick"}
  /\ (LeadingOptions /\ db_cancelState = "called" /\ db_op = "call"
        /\ db_lastCallThis # Undefined) =>
       /\ db_burstInvoked = 1
       /\ db_invokedAt = db_now
       /\ db_invokedArgs = db_lastCallArgs

\* C15: in every reachable state of the canvas page the scaled logo is no
\* larger than the canvas: leftBound <= rightBound and topBound <= bottomBound.
C15_BoundsNonEmpty ==
  /\ leftBound <= rightBound
  /\ topBound <= bottomBound

----------------------------------------------------------------------------
(***************************************************************************)
(* Claims about the events and timers of the timer-driven pages            *)
(* (SpecTimers, SpecTimersFair)                                            *)
(***************************************************************************)

\* Number of armed timers whose callback continues the animation
ArmedStepTimers(segmentArmed, nextArmed, orphanedNext) ==
  (IF segmentArmed THEN 1 ELSE 0) + (IF nextArmed THEN 1 ELSE 0) + orphanedNext

\* C11: in both timer-driven pages, under any interleaving of events and
\* callbacks, at most one timer among the animationSegmentTimeout and
\* nextAnimationTimeout timers is armed, so a single chain of
\* calculateNextPosition calls runs.
C11_SingleDrivingLoop ==
  /\ ArmedStepTimers(la_animationSegmentTimeout, la_nextAnimationTimeout,
                     la_orphanedNext) <= 1
  /\ ArmedStepTimers(seg_animationSegmentTimeout, seg_nextAnimationTimeout,
                     seg_orphanedNext) <= 1

\* C11 witness: the logoLoadTimeout callback has just run while a segment was
\* in progress (after a load event or a handled resize), and the one chain
\* goes on.
C11_Witness ==
  /\ la_op = "logoLoad"
  /\ la_animationInProgress
  /\ ArmedStepTimers(la_animationSegmentTimeout, la_nextAnimationTimeout,
                     la_orphanedNext) = 1

\* calculateNextPosition has just run
LA_stepped == la_op \in {"nextAnimation", "logoLoadStep"}

\* C12, the safety part: when the resize handler has run no step timer is
\* armed, and no calculateNextPosition runs from then until the bounds are
\* recomputed; the step that resumes uses bounds computed from the viewport
\* and from the logo box of that moment, which are those of the window when
\* no resize event has come since the handler ran.
C12_NoStepOnStaleBounds ==
  /\ la_op = "resizeHandler" =>
       ArmedStepTimers(la_animationSegmentTimeout, la_nextAnimationTimeout,
                       la_orphanedNext) = 0
  /\ LA_stepped => la_stale # "stale"
  /\ la_op = "logoLoadStep" =>
       /\ la_logoDimensions = LA_logoDimensions(la_viewportDimensions, la_logoRect)
       /\ la_pre.left = la_logoDimensions.leftBound
       /\ la_pre.right = la_logoDimensions.rightBound
       /\ la_pre.top = la_logoDimensions.topBound
       /\ la_pre.bottom = la_logoDimensions.bottomBound
       /\ ~la_resized =>
            /\ la_viewportDimensions = LA_viewport
            /\ la_logoRect = LogoRectFor(LA_viewport.width)

\* C12: the safety part always holds, and once the resize handler has run a
\* calculateNextPosition eventually runs (the timers firing fairly).
C12_ResizeOrdering ==
  /\ []C12_NoStepOnStaleBounds
  /\ (la_op = "resizeHandler") ~> LA_stepped

\* C12 witness: the animation has resumed with a step after the resize
\* handler ran and the bounds were recomputed for another viewport.
C12_Witness ==
  /\ la_op = "logoLoadStep"
  /\ la_stale = "recomputed"
  /\ la_events = 1
  /\ ~la_resized

\* C14: in both pages, a glow that has started eventually ends (the timers
\* firing fairly), whatever events come while it is on.
C14_GlowEnds ==
  /\ la_glow ~> ~la_glow
  /\ seg_glow ~> ~seg_glow

----------------------------------------------------------------------------
(***************************************************************************)
(* Claims about the FPS meter (SpecFps)                                    *)
(***************************************************************************)

\* C18: after stop(), called in any state in which the display element
\* exists (the meter running or paused), isRunning is false and the display
\* element is no longer attached to the document.
C18_StopRemovesUI ==
  (fps_op = "stop" /\ fps_element # 0) =>
    ~fps_isRunning /\ fps_element \notin fps_attached

\* C19: at most one animation-frame callback of measure() is pending at any
\* time, whatever calls of start, pause, resume, toggle and stop are made
\* between the callbacks.
C19_SingleMeasureLoop == fps_pending <= 1

\* C20: with ui enabled, at most one display element is attached to the
\* document in every reachable state.
C20_SingleDisplayElement == fps_ui => Cardinality(fps_attached) <= 1

----------------------------------------------------------------------------
(***************************************************************************)
(* Claims about the frame-driven LogoAnimator (SpecFrames)                 *)
(***************************************************************************)

\* C13: in a frame that runs after the resize handler has run, the
\* half-extents that mainLoop uses for the hit tests are those of the logo's
\* current box.
C13_BoundsRecomputedOnResize ==
  (fa_op = "mainLoop" /\ fa_handled /\ fa_pre.stepped) =>
    /\ fa_pre.halfWidth = fa_logoRect.width \div 2
    /\ fa_pre.halfHeight = fa_logoRect.height \div 2

\* C23: after every executed frame of mainLoop the angle is in [0, 360)
\* degrees, that is [0, 2*pi).
C23_AngleNormalised ==
  (fa_op = "mainLoop" /\ fa_pre.stepped) => (0 <= fa_angle /\ fa_angle < 360)

\* The last event was an executed frame of mainLoop that found the logo on
\* the given wall and on no other
OnlyHit(wall) ==
  /\ fa_op = "mainLoop"
  /\ fa_pre.stepped
  /\ fa_pre.hitLeft = (wall = "left")
  /\ fa_pre.hitRight = (wall = "right")
  /\ fa_pre.hitTop = (wall = "top")
  /\ fa_pre.hitBottom = (wall = "bottom")

\* C24: after a frame that handled a hit on one wall only, the direction
\* component normal to that wall points away from it.
C24_AwayFromWall ==
  /\ OnlyHit("left") => Cos1000(fa_angle) >= 0
  /\ OnlyHit("right") => Cos1000(fa_angle) <= 0
  /\ OnlyHit("top") => Sin1000(fa_angle) >= 0
  /\ OnlyHit("bottom") => Sin1000(fa_angle) <= 0

\* A frame found the logo on the bottom wall only while it was moving away
\* from it already, and on the right wall only while moving towards it
C24_Witness ==
  \/ OnlyHit("bottom") /\ Sin1000(fa_pre.angle) < 0 /\ Sin1000(fa_angle) < 0
  \/ OnlyHit("right") /\ Cos1000(fa_pre.angle) > 0 /\ Cos1000(fa_angle) < 0

\* C25: a frame that handled a hit on the left or the right wall only leaves
\* the sign of the vertical direction component as it was, and one that
\* handled a hit on the top or the bottom wall only leaves the sign of the
\* horizontal component as it was.
C25_OtherAxisKept ==
  /\ (OnlyHit("left") \/ OnlyHit("right")) =>
       Sign(Sin1000(fa_angle)) = Sign(Sin1000(fa_pre.angle))
  /\ (OnlyHit("top") \/ OnlyHit("bottom")) =>
       Sign(Cos1000(fa_angle)) = Sign(Cos1000(fa_pre.angle))

\* cleanup() has been called on the frame-driven LogoAnimator
FA_cleaned == FA_open /\ ~fa_isAnimating

\* C27: once cleanup() has been called, no step changes the angle, the
\* position or the CSS variables, none requests an animation frame, also
\* when a frame callback requested before still runs, and the handler of the
\* debounced resize does not run.
C27_CleanupStopsLoop ==
  [][FA_cleaned =>
       /\ UNCHANGED <<fa_angle, fa_currentX, fa_currentY, fa_cssVars>>
       /\ fa_animationFrameId' => fa_animationFrameId
       /\ fa_op' = "mainLoop" => ~fa_animationFrameId'
       /\ fa_op' # "resizeHandler"
       /\ ~fa_debounce'.timeout]_vars

\* After cleanup() cancelled a pending debounced resize, a frame callback
\* requested before it has run
C27_Witness ==
  /\ FA_cleaned
  /\ fa_op = "mainLoop"
  /\ fa_debounce.lastArgs # Undefined
  /\ ~fa_debounce.timeout

----------------------------------------------------------------------------
(***************************************************************************)
(* Claims about LogoAnimator2 (SpecAnimator2)                              *)
(***************************************************************************)

\* The last event was an executed frame of mainLoop of LogoAnimator2
Stepped2 == l2_op = "mainLoop" /\ l2_pre.stepped

\* C26: a frame that found the logo on the left or the right wall negates the
\* horizontal direction component and keeps the vertical one (with a top or
\* bottom hit in the same frame, which negates the vertical one); a frame
\* that found it on the top or the bottom wall only negates the vertical
\* component and keeps the horizontal one.
C26_PiecewiseMirrors ==
  Stepped2 =>
    LET horizontal == l2_pre.hitLeft \/ l2_pre.hitRight
        vertical == l2_pre.hitTop \/ l2_pre.hitBottom
    IN /\ horizontal => Cos1000(l2_angle) = -Cos1000(l2_pre.angle)
       /\ (horizontal /\ ~vertical) => Sin1000(l2_angle) = Sin1000(l2_pre.angle)
       /\ vertical => Sin1000(l2_angle) = -Sin1000(l2_pre.angle)
       /\ (vertical /\ ~horizontal) => Cos1000(l2_angle) = Cos1000(l2_pre.angle)

====
